---- MODULE Spec2Model ----
(***************************************************************************)
(* Model of src/lib/ai-service (AIService: the local scorers               *)
(* calculateLocalSimilarity and detectAIContent, detectPlagiarism, the     *)
(* analyses with their fallbacks, analyzeSubmission) and of the route      *)
(* handlers of src/app/api.                                                *)
(*                                                                         *)
(* A JavaScript string is a sequence of one-character strings.  A number   *)
(* is a record [n, d] standing for the exact value n/d, in lowest terms;   *)
(* d = 0 stands for the results of a float division by zero: [0, 0] is     *)
(* NaN, [1, 0] is Infinity and [-1, 0] is -Infinity.                       *)
(***************************************************************************)
EXTENDS Integers, Sequences, FiniteSets, TLC

VARIABLES
    submissions,   \* rows of prisma.submission, in the order findMany returns them
    call,          \* name of the operation that has been called ("none" at start)
    text1,         \* first argument of the call (candidate text / content)
    text2,         \* second argument of a calculateLocalSimilarity call
    submissionId,  \* second argument of a detectPlagiarism call
    simResult,     \* value returned by calculateLocalSimilarity
    aiLocals,      \* local variables of detectAIContent when it returned
    plagResult,    \* value returned by detectPlagiarism
    dbError,       \* whether a prisma call of the operation threw
    geminiKey,     \* process.env.GEMINI_API_KEY ("" when it is not set)
    thrown,        \* the error the operation threw to its caller ("none" if it returned)
    trace,         \* the calls the operation made to prisma and to the LLM, in order
    analysis,      \* value returned by analyzeCode or analyzeText
    feedback,      \* value returned by generateFeedback
    session,       \* session.user of the request a route handler answered
    response,      \* the response of the route handler
    projects,      \* ids of the users that own a row of prisma.project
    pc,            \* where each running call of analyzeSubmission stands
    local          \* the local variables of each call of analyzeSubmission

vars == <<pc, local, session, response, projects, submissions, call, text1, text2, submissionId, simResult, aiLocals,
          plagResult, dbError, geminiKey, thrown, trace, analysis, feedback>>

----------------------------------------------------------------------------
(* Numbers *)

RECURSIVE Gcd(_, _)
Gcd(a, b) == IF b = 0 THEN a ELSE Gcd(b, a % b)

Abs(a) == IF a < 0 THEN -a ELSE a

Sign(a) == IF a < 0 THEN -1 ELSE IF a > 0 THEN 1 ELSE 0

\* n/d for d >= 0, in lowest terms
Num(n, d) ==
    IF d = 0 THEN [n |-> Sign(n), d |-> 0]
    ELSE LET g == Gcd(Abs(n), d)
         IN  [n |-> n \div g, d |-> d \div g]

Zero == [n |-> 0, d |-> 1]
One == [n |-> 1, d |-> 1]
NaN == [n |-> 0, d |-> 0]

IsNaN(x) == x.d = 0 /\ x.n = 0
IsFinite(x) == x.d > 0

\* a / b for integers a, b with b >= 0
Div(a, b) == Num(a, b)

\* x + y
Add(x, y) ==
    IF IsNaN(x) \/ IsNaN(y) THEN NaN
    ELSE IF x.d = 0 /\ y.d = 0 THEN (IF x.n = y.n THEN x ELSE NaN)
    ELSE IF x.d = 0 THEN x
    ELSE IF y.d = 0 THEN y
    ELSE Num(x.n * y.d + y.n * x.d, x.d * y.d)

\* x - y
Sub(x, y) == Add(x, [n |-> -y.n, d |-> y.d])

\* x * (a/b) for integers a > 0, b > 0
Scale(x, a, b) ==
    IF x.d = 0 THEN x ELSE Num(x.n * a, x.d * b)

\* x > y as JavaScript compares numbers: false when either is NaN
Gt(x, y) ==
    IF IsNaN(x) \/ IsNaN(y) THEN FALSE
    ELSE IF x.d = 0 \/ y.d = 0
         THEN (IF x.d = 0 THEN x.n ELSE 0) > (IF y.d = 0 THEN y.n ELSE 0)
         ELSE x.n * y.d > y.n * x.d

\* x >= y
Ge(x, y) == Gt(x, y) \/ (~IsNaN(x) /\ x = y)

\* Math.min(x, y) and Math.max(x, y): NaN if either argument is NaN
MathMin(x, y) ==
    IF IsNaN(x) \/ IsNaN(y) THEN NaN ELSE IF Gt(x, y) THEN y ELSE x

MathMax(x, y) ==
    IF IsNaN(x) \/ IsNaN(y) THEN NaN ELSE IF Gt(y, x) THEN y ELSE x

\* a number in the closed interval [0,1], neither NaN nor infinite
InUnitInterval(x) == x.d > 0 /\ 0 <= x.n /\ x.n <= x.d

----------------------------------------------------------------------------
(* Characters and strings *)

UpperLetters == <<"A","B","C","D","E","F","G","H","I","J","K","L","M",
                  "N","O","P","Q","R","S","T","U","V","W","X","Y","Z">>
LowerLetters == <<"a","b","c","d","e","f","g","h","i","j","k","l","m",
                  "n","o","p","q","r","s","t","u","v","w","x","y","z">>
Digits == {"0","1","2","3","4","5","6","7","8","9"}

Range(f) == {f[i] : i \in DOMAIN f}

UpperSet == Range(UpperLetters)
LetterSet == UpperSet \cup Range(LowerLetters)
WordCharSet == LetterSet \cup Digits \cup {"_"}

IsUpper(c) == c \in UpperSet
IsLetter(c) == c \in LetterSet

\* the regular-expression classes \s and \w
IsSpace(c) == c \in {" ", "\t", "\n", "\r"}
IsWordChar(c) == c \in WordCharSet

\* String.prototype.toLowerCase, one character
LowerOf == [c \in UpperSet |->
               LowerLetters[CHOOSE i \in 1..26 : UpperLetters[i] = c]]

LowerChar(c) == IF IsUpper(c) THEN LowerOf[c] ELSE c

toLowerCase(s) == [i \in 1..Len(s) |-> LowerChar(s[i])]

\* s.substring(from, to) with 0-based from/to as in JavaScript
substring(s, from, to) ==
    SubSeq(s, from + 1, IF to > Len(s) THEN Len(s) ELSE to)

\* s.includes(sub)
includes(s, sub) ==
    \E i \in 0..(Len(s) - Len(sub)) : substring(s, i, i + Len(sub)) = sub

\* s.trim()
trim(s) ==
    LET kept == {i \in 1..Len(s) : ~IsSpace(s[i])}
    IN  IF kept = {} THEN <<>>
        ELSE SubSeq(s, CHOOSE i \in kept : \A j \in kept : i <= j,
                       CHOOSE i \in kept : \A j \in kept : i >= j)

\* s.split(re) where re matches a maximal run of characters satisfying
\* IsSep (/\s+/, /[.!?]+/) or, when runs is FALSE, a single character
\* (split(' ')).  The result always has at least one element: "" splits
\* to [""], and a leading or trailing separator yields an empty piece.
Split(s, IsSep(_), runs) ==
    LET n == Len(s)
        \* the positions where a separator match starts
        starts == {i \in 1..n :
                      IsSep(s[i]) /\ (~runs \/ i = 1 \/ ~IsSep(s[i - 1]))}
        \* the position where the separator match starting at i ends
        EndOf(i) == IF runs
                    THEN CHOOSE j \in i..n :
                             /\ \A l \in i..j : IsSep(s[l])
                             /\ (j = n \/ ~IsSep(s[j + 1]))
                    ELSE i
        k == Cardinality(starts)
        Nth(m) == CHOOSE i \in starts : Cardinality({j \in starts : j < i}) = m - 1
    IN  [m \in 1..(k + 1) |->
            SubSeq(s, IF m = 1 THEN 1 ELSE EndOf(Nth(m - 1)) + 1,
                      IF m = k + 1 THEN n ELSE Nth(m) - 1)]

\* the split with the empty pieces dropped (.filter(Boolean))
SplitWhitespace_dropEmpty(s) ==
    LET Kept(w) == w # <<>>
    IN  SelectSeq(Split(s, IsSpace, TRUE), Kept)

\* text.split(/\s+/)
SplitWhitespace(s) == Split(s, IsSpace, TRUE)

IsSentenceEnd(c) == c \in {".", "!", "?"}

\* text.split(/[.!?]+/)
SplitSentences(s) == Split(s, IsSentenceEnd, TRUE)

IsBlank(c) == c = " "

\* text.split(' ')
SplitBlank(s) == Split(s, IsBlank, FALSE)

----------------------------------------------------------------------------
(* AIService.calculateLocalSimilarity *)

WindowLen == 20

\* the loop stopping one offset early (i < shorterText.length - minLength)
SubstringMatches_stopEarly(shorterText, longerText, minLength) ==
    Cardinality({i \in 0..(Len(shorterText) - minLength - 1) :
        includes(longerText, substring(shorterText, i, i + minLength))})

\* the for loop of lines 493-498: the number of offsets i at which the
\* window of shorterText occurs in longerText
SubstringMatches(shorterText, longerText, minLength) ==
    Cardinality({i \in 0..(Len(shorterText) - minLength) :
        includes(longerText, substring(shorterText, i, i + minLength))})

\* the division without the + 1 in the number of windows
SubstringSimilarity_noPlusOne(substringMatches, shorterLength, minLength) ==
    Div(substringMatches, shorterLength - minLength)

\* substringMatches / (shorterText.length - minLength + 1)
SubstringSimilarity(substringMatches, shorterLength, minLength) ==
    Div(substringMatches, shorterLength - minLength + 1)

calculateLocalSimilarity(t1, t2) ==
    LET words1 == Range(SplitWhitespace(toLowerCase(t1)))
        words2 == Range(SplitWhitespace(toLowerCase(t2)))
        intersection == {x \in words1 : x \in words2}
        union == words1 \cup words2
        jaccardSimilarity == Div(Cardinality(intersection), Cardinality(union))
        longerText == IF Len(t1) > Len(t2) THEN t1 ELSE t2
        shorterText == IF Len(t1) > Len(t2) THEN t2 ELSE t1
        minLength == IF WindowLen < Len(shorterText)
                     THEN WindowLen ELSE Len(shorterText)
        substringMatches == SubstringMatches(shorterText, longerText, minLength)
        substringSimilarity ==
            SubstringSimilarity(substringMatches, Len(shorterText), minLength)
    IN  MathMin(One, Add(Scale(jaccardSimilarity, 7, 10),
                         Scale(substringSimilarity, 3, 10)))

----------------------------------------------------------------------------
(* Regular-expression matching as String.prototype.match does it with the *)
(* g flag: matches are found left to right and do not overlap.  Positions *)
(* are gaps between characters, 0..Len(s).  A pattern is described by the *)
(* function that maps every gap q < Len(s) to the gap where the match     *)
(* starting at q ends, or to -1 if no match starts at q.  Patterns with   *)
(* the i flag are matched on the lower-cased text against lower-case      *)
(* literals.                                                              *)

\* (s.match(re) || []).length for a pattern given by its ends function:
\* the leftmost match at or after gap p is taken, and the search resumes
\* where it ends
RECURSIVE CountFromGap(_, _)
CountFromGap(ends, p) ==
    LET cand == {q \in DOMAIN ends : q >= p /\ ends[q] # -1}
    IN  IF cand = {} THEN 0
        ELSE 1 + CountFromGap(ends, ends[CHOOSE q \in cand : \A r \in cand : q <= r])

CountMatches(ends) == CountFromGap(ends, 0)

\* \b at gap p
WordBoundaryAt(s, p) ==
    LET before == p >= 1 /\ IsWordChar(s[p])
        after == p < Len(s) /\ IsWordChar(s[p + 1])
    IN  before # after

\* the literal lit occurs in s right after gap p
LitAt(s, p, lit) ==
    /\ p + Len(lit) <= Len(s)
    /\ \A k \in 1..Len(lit) : s[p + k] = lit[k]

\* /\b(alt1|alt2|...)\b/ tried at gap p: the gap after the first alternative
\* (in the order written) that matches and ends at a word boundary; -1 if none
FirstAltEnd(s, alts, p) ==
    LET ok == {i \in 1..Len(alts) :
                  LitAt(s, p, alts[i]) /\ WordBoundaryAt(s, p + Len(alts[i]))}
    IN  IF ok = {} THEN -1
        ELSE p + Len(alts[CHOOSE i \in ok : \A j \in ok : i <= j])

\* (s.match(/\b(alt1|alt2|...)\b/gi) || []).length
CountAlt(s, alts) ==
    CountMatches([q \in 0..(Len(s) - 1) |->
        IF WordBoundaryAt(s, q) THEN FirstAltEnd(s, alts, q) ELSE -1])

\* membership in a character class: \s, \w, [a-z] under flag i, [^)],
\* [.!?], [A-Z]
InClass(cls, c) ==
    CASE cls = "s" -> IsSpace(c)
      [] cls = "w" -> IsWordChar(c)
      [] cls = "letter" -> IsLetter(c)
      [] cls = "notclose" -> c # ")"
      [] cls = "punct" -> IsSentenceEnd(c)
      [] cls = "upper" -> IsUpper(c)

\* the gap after the longest run of characters of class cls that starts at gap p
ClassRunEnd(s, p, cls) ==
    CHOOSE r \in p..Len(s) :
        /\ \A j \in (p + 1)..r : InClass(cls, s[j])
        /\ (r = Len(s) \/ ~InClass(cls, s[r + 1]))

\* /[a-z]+'[a-z]+/gi (contractions)
CountContractions(s) ==
    CountMatches([q \in 0..(Len(s) - 1) |->
        LET r == ClassRunEnd(s, q, "letter")
        IN  IF r > q /\ r + 1 < Len(s) /\ s[r + 1] = "'" /\ IsLetter(s[r + 2])
            THEN ClassRunEnd(s, r + 1, "letter")
            ELSE -1])

\* /[.!?]\s+[A-Z]/g (no i flag: matched on the text as written)
CountPerfectPunctuation(s) ==
    CountMatches([q \in 0..(Len(s) - 1) |->
        LET r == ClassRunEnd(s, q + 1, "s")
        IN  IF IsSentenceEnd(s[q + 1]) /\ r > q + 1 /\ r < Len(s)
               /\ IsUpper(s[r + 1])
            THEN r + 1
            ELSE -1])

\* content.match(/\b([a-z]+)(\1)\b/gi) is not null: some word, delimited by
\* word boundaries, is a string of letters written twice in a row
HasRepeat(s) ==
    \E p \in 0..(Len(s) - 2) :
        /\ WordBoundaryAt(s, p)
        /\ \E k \in 1..((Len(s) - p) \div 2) :
              /\ \A j \in 1..(2 * k) : IsLetter(s[p + j])
              /\ SubSeq(s, p + 1, p + k) = SubSeq(s, p + k + 1, p + 2 * k)
              /\ WordBoundaryAt(s, p + 2 * k)

\* The code patterns are a word boundary followed by a sequence of items:
\* a literal, or a greedy repetition of a character class (\s+, \s*, \w+,
\* [^)]*) with a minimum count.  MatchItems is the gap where the match of
\* items i.. starting at gap p ends, a repetition taking as many characters
\* as the rest of the pattern allows; -1 if there is no match.
Lit(lit) == [k |-> "lit", s |-> lit]
Rep(cls, min) == [k |-> "rep", c |-> cls, min |-> min]

RECURSIVE MatchItems(_, _, _, _)
MatchItems(s, items, i, p) ==
    IF i > Len(items) THEN p
    ELSE IF items[i].k = "lit"
         THEN IF LitAt(s, p, items[i].s)
              THEN MatchItems(s, items, i + 1, p + Len(items[i].s))
              ELSE -1
         ELSE LET ok == {q \in (p + items[i].min)..ClassRunEnd(s, p, items[i].c) :
                            MatchItems(s, items, i + 1, q) # -1}
              IN  IF ok = {} THEN -1
                  ELSE MatchItems(s, items, i + 1,
                                  CHOOSE q \in ok : \A r \in ok : q >= r)

CountItems(s, items) ==
    CountMatches([q \in 0..(Len(s) - 1) |->
        IF WordBoundaryAt(s, q) THEN MatchItems(s, items, 1, q) ELSE -1])

----------------------------------------------------------------------------
(* AIService.detectAIContent: the pattern tables *)

\* strongAIPatterns: one sequence of alternatives per regular expression
strongAIPatterns == <<
    \* line 304: /\b(it is important to note|it should be noted|it is worth mentioning|it is crucial to)\b/gi
    <<<<"i","t"," ","i","s"," ","i","m","p","o","r","t","a","n","t"," ","t","o"," ","n","o","t","e">>,
      <<"i","t"," ","s","h","o","u","l","d"," ","b","e"," ","n","o","t","e","d">>,
      <<"i","t"," ","i","s"," ","w","o","r","t","h"," ","m","e","n","t","i","o","n","i","n","g">>,
      <<"i","t"," ","i","s"," ","c","r","u","c","i","a","l"," ","t","o">>>>,
    \* line 305: /\b(in order to|with the aim of|for the purpose of|in an effort to)\b/gi
    <<<<"i","n"," ","o","r","d","e","r"," ","t","o">>,
      <<"w","i","t","h"," ","t","h","e"," ","a","i","m"," ","o","f">>,
      <<"f","o","r"," ","t","h","e"," ","p","u","r","p","o","s","e"," ","o","f">>,
      <<"i","n"," ","a","n"," ","e","f","f","o","r","t"," ","t","o">>>>,
    \* line 306: /\b(it is evident that|it is clear that|it is apparent that)\b/gi
    <<<<"i","t"," ","i","s"," ","e","v","i","d","e","n","t"," ","t","h","a","t">>,
      <<"i","t"," ","i","s"," ","c","l","e","a","r"," ","t","h","a","t">>,
      <<"i","t"," ","i","s"," ","a","p","p","a","r","e","n","t"," ","t","h","a","t">>>>,
    \* line 307: /\b(plays a crucial role|is essential|is vital|is significant)\b/gi
    <<<<"p","l","a","y","s"," ","a"," ","c","r","u","c","i","a","l"," ","r","o","l","e">>,
      <<"i","s"," ","e","s","s","e","n","t","i","a","l">>,
      <<"i","s"," ","v","i","t","a","l">>,
      <<"i","s"," ","s","i","g","n","i","f","i","c","a","n","t">>>>,
    \* line 308: /\b(in today's world|in the modern era|in recent years|in the digital age)\b/gi
    <<<<"i","n"," ","t","o","d","a","y","'","s"," ","w","o","r","l","d">>,
      <<"i","n"," ","t","h","e"," ","m","o","d","e","r","n"," ","e","r","a">>,
      <<"i","n"," ","r","e","c","e","n","t"," ","y","e","a","r","s">>,
      <<"i","n"," ","t","h","e"," ","d","i","g","i","t","a","l"," ","a","g","e">>>>,
    \* line 309: /\b(has become increasingly|has been growing|has evolved to become)\b/gi
    <<<<"h","a","s"," ","b","e","c","o","m","e"," ","i","n","c","r","e","a","s","i","n","g","l","y">>,
      <<"h","a","s"," ","b","e","e","n"," ","g","r","o","w","i","n","g">>,
      <<"h","a","s"," ","e","v","o","l","v","e","d"," ","t","o"," ","b","e","c","o","m","e">>>>,
    \* line 310: /\b(offers tremendous|presents significant|provides valuable)\b/gi
    <<<<"o","f","f","e","r","s"," ","t","r","e","m","e","n","d","o","u","s">>,
      <<"p","r","e","s","e","n","t","s"," ","s","i","g","n","i","f","i","c","a","n","t">>,
      <<"p","r","o","v","i","d","e","s"," ","v","a","l","u","a","b","l","e">>>>,
    \* line 312: /\b(numerous benefits|various aspects|comprehensive approach)\b/gi
    <<<<"n","u","m","e","r","o","u","s"," ","b","e","n","e","f","i","t","s">>,
      <<"v","a","r","i","o","u","s"," ","a","s","p","e","c","t","s">>,
      <<"c","o","m","p","r","e","h","e","n","s","i","v","e"," ","a","p","p","r","o","a","c","h">>>>,
    \* line 313: /\b(facilitate the process|optimize performance|leverage technology)\b/gi
    <<<<"f","a","c","i","l","i","t","a","t","e"," ","t","h","e"," ","p","r","o","c","e","s","s">>,
      <<"o","p","t","i","m","i","z","e"," ","p","e","r","f","o","r","m","a","n","c","e">>,
      <<"l","e","v","e","r","a","g","e"," ","t","e","c","h","n","o","l","o","g","y">>>>
>>

\* moderateAIPatterns
moderateAIPatterns == <<
    \* line 317: /\b(however|furthermore|moreover|additionally|in conclusion|to summarize|in summary)\b/gi
    <<<<"h","o","w","e","v","e","r">>,
      <<"f","u","r","t","h","e","r","m","o","r","e">>,
      <<"m","o","r","e","o","v","e","r">>,
      <<"a","d","d","i","t","i","o","n","a","l","l","y">>,
      <<"i","n"," ","c","o","n","c","l","u","s","i","o","n">>,
      <<"t","o"," ","s","u","m","m","a","r","i","z","e">>,
      <<"i","n"," ","s","u","m","m","a","r","y">>>>,
    \* line 318: /\b(comprehensive|thorough|detailed|extensive|systematic)\b/gi
    <<<<"c","o","m","p","r","e","h","e","n","s","i","v","e">>,
      <<"t","h","o","r","o","u","g","h">>,
      <<"d","e","t","a","i","l","e","d">>,
      <<"e","x","t","e","n","s","i","v","e">>,
      <<"s","y","s","t","e","m","a","t","i","c">>>>,
    \* line 319: /\b(utilize|facilitate|implement|enhance|optimize|leverage)\b/gi
    <<<<"u","t","i","l","i","z","e">>,
      <<"f","a","c","i","l","i","t","a","t","e">>,
      <<"i","m","p","l","e","m","e","n","t">>,
      <<"e","n","h","a","n","c","e">>,
      <<"o","p","t","i","m","i","z","e">>,
      <<"l","e","v","e","r","a","g","e">>>>,
    \* line 320: /\b(thus|hence|therefore|consequently|accordingly|subsequently)\b/gi
    <<<<"t","h","u","s">>,
      <<"h","e","n","c","e">>,
      <<"t","h","e","r","e","f","o","r","e">>,
      <<"c","o","n","s","e","q","u","e","n","t","l","y">>,
      <<"a","c","c","o","r","d","i","n","g","l","y">>,
      <<"s","u","b","s","e","q","u","e","n","t","l","y">>>>,
    \* line 321: /\b(one of the|some of the|many of the|various)\b/gi
    <<<<"o","n","e"," ","o","f"," ","t","h","e">>,
      <<"s","o","m","e"," ","o","f"," ","t","h","e">>,
      <<"m","a","n","y"," ","o","f"," ","t","h","e">>,
      <<"v","a","r","i","o","u","s">>>>
>>

\* humanIndicators, the first seven (the eighth is the contraction pattern)
humanIndicators == <<
    \* line 326: /\b(I|we|my|our|me|us|myself|we're|I'm|I've|I'll)\b/gi
    <<<<"i">>,
      <<"w","e">>,
      <<"m","y">>,
      <<"o","u","r">>,
      <<"m","e">>,
      <<"u","s">>,
      <<"m","y","s","e","l","f">>,
      <<"w","e","'","r","e">>,
      <<"i","'","m">>,
      <<"i","'","v","e">>,
      <<"i","'","l","l">>>>,
    \* line 327: /\b(actually|really|just|kinda|sorta|definitely|probably|maybe)\b/gi
    <<<<"a","c","t","u","a","l","l","y">>,
      <<"r","e","a","l","l","y">>,
      <<"j","u","s","t">>,
      <<"k","i","n","d","a">>,
      <<"s","o","r","t","a">>,
      <<"d","e","f","i","n","i","t","e","l","y">>,
      <<"p","r","o","b","a","b","l","y">>,
      <<"m","a","y","b","e">>>>,
    \* line 328: /\b(damn|shit|gosh|wow|cool|nice|awesome|sucks)\b/gi
    <<<<"d","a","m","n">>,
      <<"s","h","i","t">>,
      <<"g","o","s","h">>,
      <<"w","o","w">>,
      <<"c","o","o","l">>,
      <<"n","i","c","e">>,
      <<"a","w","e","s","o","m","e">>,
      <<"s","u","c","k","s">>>>,
    \* line 329: /\b(I think|I believe|I feel|in my opinion|I guess)\b/gi
    <<<<"i"," ","t","h","i","n","k">>,
      <<"i"," ","b","e","l","i","e","v","e">>,
      <<"i"," ","f","e","e","l">>,
      <<"i","n"," ","m","y"," ","o","p","i","n","i","o","n">>,
      <<"i"," ","g","u","e","s","s">>>>,
    \* line 330: /\b(idk|idc|lol|omg|tbh|imo|btw)\b/gi
    <<<<"i","d","k">>,
      <<"i","d","c">>,
      <<"l","o","l">>,
      <<"o","m","g">>,
      <<"t","b","h">>,
      <<"i","m","o">>,
      <<"b","t","w">>>>,
    \* line 331: /\b(probably|maybe|might|could|should|would)\b/gi
    <<<<"p","r","o","b","a","b","l","y">>,
      <<"m","a","y","b","e">>,
      <<"m","i","g","h","t">>,
      <<"c","o","u","l","d">>,
      <<"s","h","o","u","l","d">>,
      <<"w","o","u","l","d">>>>,
    \* line 332: /\b(because|so|but|and|like|you know)\b/gi
    <<<<"b","e","c","a","u","s","e">>,
      <<"s","o">>,
      <<"b","u","t">>,
      <<"a","n","d">>,
      <<"l","i","k","e">>,
      <<"y","o","u"," ","k","n","o","w">>>>
>>

\* personalPronouns
\* line 375: /\b(I|we|my|our|me|us|myself|ourselves|I'm|I've|I'll|we're)\b/gi
personalPronounAlts == <<
    <<"i">>,
    <<"w","e">>,
    <<"m","y">>,
    <<"o","u","r">>,
    <<"m","e">>,
    <<"u","s">>,
    <<"m","y","s","e","l","f">>,
    <<"o","u","r","s","e","l","v","e","s">>,
    <<"i","'","m">>,
    <<"i","'","v","e">>,
    <<"i","'","l","l">>,
    <<"w","e","'","r","e">>>>

\* casualWords
\* line 388: /\b(actually|really|just|kinda|sorta|maybe|probably|definitely|cool|nice|awesome)\b/gi
casualWordAlts == <<
    <<"a","c","t","u","a","l","l","y">>,
    <<"r","e","a","l","l","y">>,
    <<"j","u","s","t">>,
    <<"k","i","n","d","a">>,
    <<"s","o","r","t","a">>,
    <<"m","a","y","b","e">>,
    <<"p","r","o","b","a","b","l","y">>,
    <<"d","e","f","i","n","i","t","e","l","y">>,
    <<"c","o","o","l">>,
    <<"n","i","c","e">>,
    <<"a","w","e","s","o","m","e">>>>

\* formalWords
\* line 412: /\b(analysis|implementation|methodology|framework|paradigm|infrastructure|optimization|utilization)\b/gi
formalWordAlts == <<
    <<"a","n","a","l","y","s","i","s">>,
    <<"i","m","p","l","e","m","e","n","t","a","t","i","o","n">>,
    <<"m","e","t","h","o","d","o","l","o","g","y">>,
    <<"f","r","a","m","e","w","o","r","k">>,
    <<"p","a","r","a","d","i","g","m">>,
    <<"i","n","f","r","a","s","t","r","u","c","t","u","r","e">>,
    <<"o","p","t","i","m","i","z","a","t","i","o","n">>,
    <<"u","t","i","l","i","z","a","t","i","o","n">>>>

\* conversationalConnectors
\* line 461: /\b(actually|really|like|you know|I mean)\b/gi
conversationalConnectorAlts == <<
    <<"a","c","t","u","a","l","l","y">>,
    <<"r","e","a","l","l","y">>,
    <<"l","i","k","e">>,
    <<"y","o","u"," ","k","n","o","w">>,
    <<"i"," ","m","e","a","n">>>>

\* codePatterns
codePatterns == <<
    \* line 421: /\b(function\s+\w+\s*\([^)]*\)\s*\{)/gi
    <<Lit(<<"f","u","n","c","t","i","o","n">>), Rep("s", 1), Rep("w", 1),
      Rep("s", 0), Lit(<<"(">>), Rep("notclose", 0), Lit(<<")">>),
      Rep("s", 0), Lit(<<"{">>)>>,
    \* line 422: /\b(const\s+\w+\s*=\s*\([^)]*\)\s*=>)/gi
    <<Lit(<<"c","o","n","s","t">>), Rep("s", 1), Rep("w", 1), Rep("s", 0),
      Lit(<<"=">>), Rep("s", 0), Lit(<<"(">>), Rep("notclose", 0),
      Lit(<<")">>), Rep("s", 0), Lit(<<"=",">">>)>>,
    \* line 423: /\b(if\s*\([^)]*\)\s*\{)/gi
    <<Lit(<<"i","f">>), Rep("s", 0), Lit(<<"(">>), Rep("notclose", 0),
      Lit(<<")">>), Rep("s", 0), Lit(<<"{">>)>>,
    \* line 424: /\b(for\s*\([^)]*\)\s*\{)/gi
    <<Lit(<<"f","o","r">>), Rep("s", 0), Lit(<<"(">>), Rep("notclose", 0),
      Lit(<<")">>), Rep("s", 0), Lit(<<"{">>)>>,
    \* line 425: /\b(while\s*\([^)]*\)\s*\{)/gi
    <<Lit(<<"w","h","i","l","e">>), Rep("s", 0), Lit(<<"(">>),
      Rep("notclose", 0), Lit(<<")">>), Rep("s", 0), Lit(<<"{">>)>>,
    \* line 426: /\b(try\s*\{)/gi
    <<Lit(<<"t","r","y">>), Rep("s", 0), Lit(<<"{">>)>>,
    \* line 427: /\b(catch\s*\([^)]*\)\s*\{)/gi
    <<Lit(<<"c","a","t","c","h">>), Rep("s", 0), Lit(<<"(">>),
      Rep("notclose", 0), Lit(<<")">>), Rep("s", 0), Lit(<<"{">>)>>,
    \* line 428: /\b(console\.log\()/gi
    <<Lit(<<"c","o","n","s","o","l","e",".","l","o","g","(">>)>>,
    \* line 429: /\b(return\s+)/gi
    <<Lit(<<"r","e","t","u","r","n">>), Rep("s", 1)>>,
    \* line 430: /\b(import\s+)/gi
    <<Lit(<<"i","m","p","o","r","t">>), Rep("s", 1)>>,
    \* line 431: /\b(export\s+)/gi
    <<Lit(<<"e","x","p","o","r","t">>), Rep("s", 1)>>
>>

\* the words whose presence (content.includes) enables the code patterns
codeKeywords == {<<"f","u","n","c","t","i","o","n">>, <<"c","o","n","s","t">>,
                 <<"l","e","t">>, <<"v","a","r">>}

----------------------------------------------------------------------------
(* AIService.detectAIContent *)

\* the forEach loops over a pattern table: every pattern that matches adds
\* (matches.length / words) * weight
RECURSIVE PatternScore(_, _, _, _, _)
PatternScore(s, table, words, weight, i) ==
    IF i > Len(table) THEN Zero
    ELSE LET matches == CountAlt(s, table[i])
             rest == PatternScore(s, table, words, weight, i + 1)
         IN  IF matches > 0
             THEN Add(Scale(Div(matches, words), weight, 1), rest)
             ELSE rest

\* the forEach loop over codePatterns: the total number of matches
RECURSIVE CodeMatches(_, _)
CodeMatches(s, i) ==
    IF i > Len(codePatterns) THEN 0
    ELSE CountItems(s, codePatterns[i]) + CodeMatches(s, i + 1)

NonEmpty(s) == s # <<>>

\* the human score added instead of subtracted
InitialFinalScore_addHuman(aiScore, humanScore) ==
    Add(aiScore, Scale(humanScore, 1, 2))

\* let finalScore = aiScore - (humanScore * 0.5)
InitialFinalScore(aiScore, humanScore) ==
    Sub(aiScore, Scale(humanScore, 1, 2))

\* the clamp without its lower bound
Clamp01_noLower(x) == MathMin(x, One)

\* Math.max(0, Math.min(finalScore, 1))
Clamp01(x) == MathMax(Zero, MathMin(x, One))

\* if (conversationalConnectors > words * 0.02) finalScore -= 0.3
ConnectorPenalty(words, conversationalConnectors) ==
    IF Gt(Num(conversationalConnectors, 1), Num(words * 2, 100))
    THEN Num(3, 10) ELSE Zero

\* the end of detectAIContent: the penalties and the clamp
AIVerdict(words, sentences, pronounRatio, aiScore, humanScore, hasTypos, conversationalConnectors) ==
    LET rawScore == InitialFinalScore(aiScore, humanScore)
        typoPenalty == IF hasTypos THEN Num(2, 10) ELSE Zero
        connectorPenalty == ConnectorPenalty(words, conversationalConnectors)
        preClamp == Sub(Sub(rawScore, typoPenalty), connectorPenalty)
    IN  [words |-> words,
         sentences |-> sentences,
         avgWordsPerSentence |-> Div(words, sentences),
         pronounRatio |-> pronounRatio,
         aiScore |-> aiScore,
         humanScore |-> humanScore,
         hasTypos |-> hasTypos,
         preClamp |-> preClamp,
         finalScore |-> Clamp01(preClamp)]

\* humanScore: the human indicators, the pronoun bonus and the casual bonus
HumanScore(lc, words, pronounRatio) ==
    LET contractions == CountContractions(lc)
        human == Add(PatternScore(lc, humanIndicators, words, 30, 1),
                     IF contractions > 0
                     THEN Scale(Div(contractions, words), 30, 1)
                     ELSE Zero)
        pronounBonus == IF Gt(pronounRatio, Num(3, 100)) THEN Num(6, 10)
                        ELSE IF Gt(pronounRatio, Num(15, 1000)) THEN Num(3, 10)
                        ELSE Zero
        casualWords == CountAlt(lc, casualWordAlts)
        casualBonus == IF casualWords > 0
                       THEN Scale(Div(casualWords, words), 40, 1)
                       ELSE Zero
    IN  Add(Add(human, pronounBonus), casualBonus)

\* sentenceStarts.length > 3 && uniqueStarts.size / sentenceStarts.length < 0.4
RepetitiveStarts(sentenceStarts) ==
    /\ Len(sentenceStarts) > 3
    /\ Gt(Num(4, 10),
          Div(Cardinality(Range(sentenceStarts)), Len(sentenceStarts)))

\* aiScore: the AI patterns and the four structural signals
AIScore(content, lc, words, sentences) ==
    LET strong == PatternScore(lc, strongAIPatterns, words, 20, 1)
        moderate == PatternScore(lc, moderateAIPatterns, words, 5, 1)
        parts == SplitSentences(content)
        sentenceStarts ==
            SelectSeq([i \in 1..Len(parts) |-> SplitBlank(trim(parts[i]))[1]],
                      NonEmpty)
        perfectPunctuation == CountPerfectPunctuation(content)
        totalSentences == sentences - 1
        perfect == /\ totalSentences > 0
                   /\ Gt(Div(perfectPunctuation, totalSentences), Num(8, 10))
        formalWords == CountAlt(lc, formalWordAlts)
        formal == Gt(Div(formalWords, words), Num(5, 100))
        codeAIScore == IF \E kw \in codeKeywords : includes(content, kw)
                       THEN Num(CodeMatches(lc, 1), 10)
                       ELSE Zero
        code == Gt(codeAIScore, Num(5, 10))
    IN  Add(Add(Add(Add(Add(strong, moderate),
            IF RepetitiveStarts(sentenceStarts) THEN Num(3, 10) ELSE Zero),
            IF perfect THEN Num(2, 10) ELSE Zero),
            IF formal THEN Num(3, 10) ELSE Zero),
            IF code THEN Num(4, 10) ELSE Zero)

\* the body of detectAIContent, given content.toLowerCase(), the number of
\* words and the number of sentences
AILocals(content, lc, words, sentences) ==
    AIVerdict(words, sentences,
              Div(CountAlt(lc, personalPronounAlts), words),
              AIScore(content, lc, words, sentences),
              HumanScore(lc, words,
                         Div(CountAlt(lc, personalPronounAlts), words)),
              HasRepeat(lc),
              CountAlt(lc, conversationalConnectorAlts))

\* the local variables of detectAIContent(content) when it returns
detectAIContentLocals(content) ==
    AILocals(content, toLowerCase(content), Len(SplitWhitespace(content)),
             Len(SplitSentences(content)))

detectAIContent(content) == detectAIContentLocals(content).finalScore

----------------------------------------------------------------------------
(* AIService.detectPlagiarism and AIService.calculateGeminiSimilarity.     *)
(* A call model.generateContent(prompt) is described by its outcome, a     *)
(* record [threw, text]: either the call (or reading the response) throws, *)
(* or response.text() is text.  A row of prisma.submission always holds a  *)
(* string in content: the column is typed, and prisma rejects a write of   *)
(* any other value.                                                        *)

\* the value .env is created with (setup instructions)
PlaceholderKey == "your-gemini-api-key-here"

\* process.env.GEMINI_API_KEY && process.env.GEMINI_API_KEY !== placeholder
GeminiConfigured(key) == key # "" /\ key # PlaceholderKey

DigitChars == <<"0","1","2","3","4","5","6","7","8","9">>

IsDigit(c) == c \in Range(DigitChars)

DigitValue(c) == (CHOOSE i \in 1..10 : DigitChars[i] = c) - 1

\* the integer written by a run of digits
RECURSIVE DigitsValue(_)
DigitsValue(ds) ==
    IF ds = <<>> THEN 0
    ELSE 10 * DigitsValue(SubSeq(ds, 1, Len(ds) - 1)) + DigitValue(ds[Len(ds)])

RECURSIVE Pow10(_)
Pow10(k) == IF k = 0 THEN 1 ELSE 10 * Pow10(k - 1)

\* the end of the maximal run of digits starting at position p (p - 1 if
\* s[p] is not a digit)
DigitRunEnd(s, p) ==
    IF \E j \in p..Len(s) : ~IsDigit(s[j])
    THEN (CHOOSE j \in p..Len(s) :
              ~IsDigit(s[j]) /\ \A l \in p..(j - 1) : IsDigit(s[l])) - 1
    ELSE Len(s)

\* the clamp without its upper bound
ClampSimilarity_noUpper(x) == MathMax(x, Zero)

\* Math.min(Math.max(similarity, 0), 1)
ClampSimilarity(x) == MathMin(MathMax(x, Zero), One)

\* text.match(/(\d+\.?\d*)/) followed by parseFloat(numberMatch[1]) and the
\* clamp; 0 when the text holds no digit
ParseSimilarity(text) ==
    LET starts == {i \in 1..Len(text) : IsDigit(text[i])}
    IN  IF starts = {} THEN Zero
        ELSE LET p == CHOOSE i \in starts : \A j \in starts : i <= j
                 e == DigitRunEnd(text, p)
                 hasDot == e < Len(text) /\ text[e + 1] = "."
                 f == IF hasDot THEN DigitRunEnd(text, e + 2) ELSE e
                 int == DigitsValue(SubSeq(text, p, e))
                 frac == IF hasDot THEN SubSeq(text, e + 2, f) ELSE <<>>
             IN  ClampSimilarity(Num(int * Pow10(Len(frac)) + DigitsValue(frac),
                                     Pow10(Len(frac))))

\* the texts only make the prompt; the result is read from the outcome of
\* model.generateContent, and the catch block returns 0
calculateGeminiSimilarity(outcome) ==
    IF outcome.threw THEN Zero ELSE ParseSimilarity(outcome.text)

\* the number of characters of the matched content kept in a match
ExcerptLen == 200

\* the number of matches returned
MaxMatches == 10

\* similarity > 0.3
SimilarityThreshold == Num(3, 10)

\* similarity > 0.2 on the LLM path
GeminiThreshold == Num(2, 10)

\* aiContentScore > 0.6
AIContentThreshold == Num(6, 10)

Ellipsis == <<".", ".", ".">>

AIMatchText ==
    <<"A", "I", "-", "g", "e", "n", "e", "r", "a", "t", "e", "d",
    " ", "c", "o", "n", "t", "e", "n", "t", " ", "d", "e", "t",
    "e", "c", "t", "e", "d" >>
AIMatchSource ==
    <<
    "A", "I", " ", "C", "o", "n", "t", "e", "n", "t", " ", "D",
    "e", "t", "e", "c", "t", "i", "o", "n" >>

\* the score taken from the first match, as if the matches were sorted
MaxSimilarity_first(matches) ==
    IF Len(matches) > 0 THEN matches[1].similarity ELSE Zero

\* matches.length > 0 ? Math.max(...matches.map(m => m.similarity)) : 0
MaxSimilarity(matches) ==
    IF Len(matches) > 0
    THEN LET sims == {matches[i].similarity : i \in 1..Len(matches)}
         IN  CHOOSE x \in sims : \A y \in sims : Ge(x, y)
    ELSE Zero

\* all the matches, without the limit
TopMatches_noLimit(matches) == matches

\* the slice starting at index 1 (matches.slice(1, 10))
TopMatches_dropFirst(matches) ==
    SubSeq(matches, 2, IF Len(matches) < MaxMatches THEN Len(matches) ELSE MaxMatches)

\* matches.slice(0, 10)
TopMatches(matches) ==
    SubSeq(matches, 1, IF Len(matches) < MaxMatches THEN Len(matches) ELSE MaxMatches)

\* the query without its content filter, and no test of the content
OtherSubmissions_keepEmpty(rows, sid) ==
    LET Other(r) == r.id # sid
    IN  SelectSeq(rows, Other)

\* prisma.submission.findMany({where: {id: {not: submissionId},
\* content: {not: ""}}}) followed by the test !submission.content
OtherSubmissions(rows, sid) ==
    LET Other(r) == r.id # sid /\ r.content # <<>>
    IN  SelectSeq(rows, Other)

\* the catch block rethrowing the error
PlagiarismCatch_rethrow(error) ==
    [thrown |-> error, value |-> [score |-> Zero, matches |-> <<>>]]

\* the catch block of detectPlagiarism: the error is logged and the safe
\* fallback is returned
PlagiarismCatch(error) ==
    [thrown |-> "none", value |-> [score |-> Zero, matches |-> <<>>]]

\* the error detectPlagiarism throws to its caller
detectPlagiarismThrown(queryFails) ==
    IF queryFails THEN PlagiarismCatch("PrismaClientError").thrown ELSE "none"

\* the match pushed whatever the authorship score is
WithAIMatch_always(localMatches, aiContentScore) ==
    Append(localMatches,
           [text |-> AIMatchText,
            similarity |-> aiContentScore,
            source |-> AIMatchSource])

\* if (aiContentScore > 0.6) matches.push({...})
WithAIMatch(localMatches, aiContentScore) ==
    IF Gt(aiContentScore, AIContentThreshold)
    THEN Append(localMatches,
                [text |-> AIMatchText,
                 similarity |-> aiContentScore,
                 source |-> AIMatchSource])
    ELSE localMatches

\* return {score: maxSimilarity, matches: matches.slice(0, 10)}
PlagiarismResult(matches) ==
    [score |-> MaxSimilarity(matches), matches |-> TopMatches(matches)]

\* rows is the content of the submission table; queryFails tells whether
\* findMany throws, which the catch block turns into the safe fallback;
\* key is GEMINI_API_KEY and outcomes[i] the outcome of the LLM call made
\* for the i-th row compared
detectPlagiarism(content, sid, rows, queryFails, key, outcomes) ==
    IF queryFails THEN PlagiarismCatch("PrismaClientError").value
    ELSE
    LET otherSubmissions == OtherSubmissions(rows, sid)
        compared == [i \in 1..Len(otherSubmissions) |->
            [text |-> substring(otherSubmissions[i].content, 0, ExcerptLen)
                          \o Ellipsis,
             similarity |->
                 IF GeminiConfigured(key)
                 THEN calculateGeminiSimilarity(outcomes[i])
                 ELSE calculateLocalSimilarity(content,
                                               otherSubmissions[i].content),
             source |-> otherSubmissions[i].title]]
        Above(m) == Gt(m.similarity, IF GeminiConfigured(key)
                                     THEN GeminiThreshold
                                     ELSE SimilarityThreshold)
    IN  PlagiarismResult(WithAIMatch(SelectSeq(compared, Above),
                                     detectAIContent(content)))

\* the calls detectPlagiarism makes to prisma and to the LLM
FindManyCall == [op |-> "prisma.submission.findMany", threw |-> FALSE, text |-> <<>>]

GenerateContentCall(outcome) ==
    [op |-> "model.generateContent", threw |-> outcome.threw, text |-> outcome.text]

detectPlagiarismTrace(sid, rows, queryFails, key, outcomes) ==
    IF queryFails THEN <<[FindManyCall EXCEPT !.threw = TRUE]>>
    ELSE <<FindManyCall>> \o
         (IF GeminiConfigured(key)
          THEN [i \in 1..Len(OtherSubmissions(rows, sid)) |->
                   GenerateContentCall(outcomes[i])]
          ELSE <<>>)

----------------------------------------------------------------------------
(* AIService.fallbackCodeAnalysis and AIService.fallbackTextAnalysis *)

Hundred == Num(100, 1)

\* Math.round(x): the integer nearest to x, a half rounded up
MathRound(x) ==
    IF x.d = 0 THEN x ELSE Num((2 * x.n + x.d) \div (2 * x.d), 1)

\* code.split('\n').length
CountLines(code) == 1 + Cardinality({i \in 1..Len(code) : code[i] = "\n"})

FunctionItems == <<Lit(<<"f","u","n","c","t","i","o","n">>), Rep("s", 1), Rep("w", 1)>>

ConstArrowItems == <<Lit(<<"c","o","n","s","t">>), Rep("s", 1), Rep("w", 1),
                     Rep("s", 0), Lit(<<"=">>), Rep("s", 0), Lit(<<"(">>)>>

\* (code.match(/function\s+\w+|const\s+\w+\s*=\s*\(/g) || []).length
CountFunctions(code) ==
    CountMatches([q \in 0..(Len(code) - 1) |->
        LET f == MatchItems(code, FunctionItems, 1, q)
        IN  IF f # -1 THEN f ELSE MatchItems(code, ConstArrowItems, 1, q)])

\* (code.match(/\/\/|\/\*|\*/g) || []).length
CountComments(code) ==
    CountMatches([q \in 0..(Len(code) - 1) |->
        IF LitAt(code, q, <<"/", "/">>) \/ LitAt(code, q, <<"/", "*">>) THEN q + 2
        ELSE IF code[q + 1] = "*" THEN q + 1
        ELSE -1])

FallbackCodeSuggestions == <<
    "Consider adding more comments to improve code documentation",
    "Break down large functions into smaller, more manageable pieces",
    "Use consistent naming conventions throughout your code",
    "Add error handling for better robustness",
    "Consider using TypeScript for better type safety" >>

FallbackCodeStrengths == <<
    "Code structure is generally well-organized",
    "Functions are appropriately sized",
    "Good use of modern JavaScript features",
    "Code follows basic best practices" >>

FallbackCodeWeaknesses == <<
    "Could benefit from more comprehensive error handling",
    "Some functions might be too complex",
    "Missing documentation and comments",
    "Could improve variable naming consistency" >>

\* Math.max(60, 100 - (lines / 15) + (comments * 2))
CodeReadability(lines, comments) ==
    MathMax(Num(60, 1), Add(Sub(Hundred, Num(lines, 15)), Num(comments * 2, 1)))

\* the metrics fallbackCodeAnalysis computes from its three counts
FallbackCodeMetrics(lines, functions, comments) ==
    LET complexity == MathMin(Hundred, Add(Num(functions * 10, 1), Num(lines, 10)))
        quality == MathMax(Num(60, 1), Sub(Hundred, Scale(complexity, 1, 2)))
        maintainability == MathMax(Num(50, 1), Sub(Hundred, Num(lines, 20)))
        performance == MathMax(Num(70, 1), Sub(Hundred, Num(functions * 5, 1)))
        readability == CodeReadability(lines, comments)
    IN  [quality |-> MathRound(quality),
         complexity |-> MathRound(complexity),
         maintainability |-> MathRound(maintainability),
         performance |-> MathRound(performance),
         readability |-> MathRound(readability),
         suggestions |-> FallbackCodeSuggestions,
         strengths |-> FallbackCodeStrengths,
         weaknesses |-> FallbackCodeWeaknesses]

\* the language only appears in the prompt of analyzeCode
fallbackCodeAnalysis(code) ==
    FallbackCodeMetrics(CountLines(code), CountFunctions(code),
                        CountComments(code))

\* text.split(/\n\s*\n/).length: a separator is a newline, whitespace, and
\* the last newline of that whitespace
CountParagraphs(text) ==
    1 + CountMatches([q \in 0..(Len(text) - 1) |->
        IF text[q + 1] # "\n" THEN -1
        ELSE LET r == ClassRunEnd(text, q + 1, "s")
                 nl == {j \in (q + 2)..r : text[j] = "\n"}
             IN  IF nl = {} THEN -1
                 ELSE CHOOSE j \in nl : \A l \in nl : j >= l])

\* (text.match(/[.!?]{2,}|[A-Z]{3,}/g) || []).length
CountGrammarIssues(text) ==
    CountMatches([q \in 0..(Len(text) - 1) |->
        LET p == ClassRunEnd(text, q, "punct")
            u == ClassRunEnd(text, q, "upper")
        IN  IF p >= q + 2 THEN p
            ELSE IF u >= q + 3 THEN u
            ELSE -1])

FallbackTextSuggestions == <<
    "Consider breaking long sentences into shorter ones for better readability",
    "Add more paragraph breaks to improve structure",
    "Use transition words to connect ideas more clearly",
    "Review grammar and punctuation for accuracy",
    "Consider adding examples to illustrate your points" >>

FallbackTextStrengths == <<
    "Content is well-structured and organized",
    "Good use of vocabulary and sentence variety",
    "Clear communication of ideas",
    "Appropriate length for the content type" >>

FallbackTextWeaknesses == <<
    "Some sentences could be shorter for better readability",
    "Could benefit from more transitional phrases",
    "Grammar and punctuation need review",
    "Consider adding more specific examples" >>

\* the metrics fallbackTextAnalysis computes from its four counts
FallbackTextMetrics(words, sentences, paragraphs, grammarIssues) ==
    LET avgWordsPerSentence == Div(words, sentences)
        readability == MathMax(Num(60, 1),
                               Sub(Hundred, Scale(avgWordsPerSentence, 2, 1)))
        grammar == MathMax(Num(70, 1),
                           Sub(Hundred, Num(grammarIssues * 5, 1)))
        structure == MathMax(Num(60, 1),
                             Sub(Hundred, IF paragraphs > 1 THEN Zero ELSE Num(20, 1)))
        clarity == MathMax(Num(65, 1),
                           Sub(Hundred, IF Gt(avgWordsPerSentence, Num(20, 1))
                                        THEN Num(15, 1) ELSE Zero))
    IN  [readability |-> MathRound(readability),
         grammar |-> MathRound(grammar),
         structure |-> MathRound(structure),
         clarity |-> MathRound(clarity),
         suggestions |-> FallbackTextSuggestions,
         strengths |-> FallbackTextStrengths,
         weaknesses |-> FallbackTextWeaknesses]

fallbackTextAnalysis(text) ==
    FallbackTextMetrics(Len(SplitWhitespace(text)), Len(SplitSentences(text)),
                        CountParagraphs(text), CountGrammarIssues(text))

----------------------------------------------------------------------------
(* AIService.analyzeCode and AIService.analyzeText.  The result of an      *)
(* operation that can throw is a record [thrown, value].                   *)

\* text.match(/\{[\s\S]*\}/): the text from the first "{" to the last "}"
\* that follows it
JSONMatch(text) ==
    LET opens == {i \in 1..Len(text) : text[i] = "{"}
        first == CHOOSE i \in opens : \A j \in opens : i <= j
        closes == {j \in 1..Len(text) : text[j] = "}" /\ j > first}
    IN  IF opens = {} \/ closes = {}
        THEN [found |-> FALSE, text |-> <<>>]
        ELSE [found |-> TRUE,
              text |-> SubSeq(text, first, CHOOSE j \in closes : \A l \in closes : j >= l)]

\* the objects the replies of the LLM hold
JSONScores == <<
    "{", "\"", "q", "u", "a", "l", "i", "t", "y", "\"", ":", " ",
    "1", "5", "0", ",", " ", "\"", "c", "o", "m", "p", "l", "e",
    "x", "i", "t", "y", "\"", ":", " ", "-", "5", ",", " ", "\"",
    "r", "e", "a", "d", "a", "b", "i", "l", "i", "t", "y", "\"",
    ":", " ", "8", "0", "}" >>

JSONTextScores == <<
    "{", "\"", "r", "e", "a", "d", "a", "b", "i", "l", "i", "t",
    "y", "\"", ":", " ", "9", "0", ",", " ", "\"", "g", "r", "a",
    "m", "m", "a", "r", "\"", ":", " ", "7", "0", ",", " ", "\"",
    "s", "t", "r", "u", "c", "t", "u", "r", "e", "\"", ":", " ",
    "6", "0", ",", " ", "\"", "c", "l", "a", "r", "i", "t", "y",
    "\"", ":", " ", "5", "0", ",", " ", "\"", "s", "t", "r", "e",
    "n", "g", "t", "h", "s", "\"", ":", " ", "[", "\"", "c", "l",
    "e", "a", "r", "\"", "]", "}" >>

\* JSON.parse(jsonMatch[0]) on these objects; it throws on any other text
\* explored
JSONParse(t) ==
    IF t = JSONScores
    THEN [ok |-> TRUE,
          value |-> [quality |-> Num(150, 1), complexity |-> Num(-5, 1),
                     readability |-> Num(80, 1)]]
    ELSE IF t = JSONTextScores
    THEN [ok |-> TRUE,
          value |-> [readability |-> Num(90, 1), grammar |-> Num(70, 1),
                     structure |-> Num(60, 1), clarity |-> Num(50, 1),
                     strengths |-> <<"clear">>]]
    ELSE [ok |-> FALSE, value |-> [error |-> "SyntaxError"]]

\* Math.min(Math.max(analysis.field || 0, 0), 100)
ValidatedScore(obj, field) ==
    MathMin(MathMax(IF field \in DOMAIN obj THEN obj[field] ELSE Zero, Zero), Hundred)

\* analysis.field || []
ValidatedList(obj, field) == IF field \in DOMAIN obj THEN obj[field] ELSE <<>>

\* the catch block rethrowing the error
AnalyzeCodeCatch_rethrow(code) == [thrown |-> "Error", value |-> [kind |-> "none"]]

\* the catch block of analyzeCode
AnalyzeCodeCatch(code) == [thrown |-> "none", value |-> fallbackCodeAnalysis(code)]

\* outcome is the outcome of model.generateContent(prompt); a call that
\* throws, a reply without an object and a reply JSON.parse rejects all
\* end in the catch block
analyzeCode(code, key, outcome) ==
    IF ~GeminiConfigured(key)
    THEN [thrown |-> "none", value |-> fallbackCodeAnalysis(code)]
    ELSE LET jsonMatch == JSONMatch(outcome.text)
             parsed == JSONParse(jsonMatch.text)
             a == parsed.value
         IN  IF outcome.threw \/ ~jsonMatch.found \/ ~parsed.ok
             THEN AnalyzeCodeCatch(code)
             ELSE [thrown |-> "none",
                   value |-> [quality |-> ValidatedScore(a, "quality"),
                              complexity |-> ValidatedScore(a, "complexity"),
                              maintainability |-> ValidatedScore(a, "maintainability"),
                              performance |-> ValidatedScore(a, "performance"),
                              readability |-> ValidatedScore(a, "readability"),
                              suggestions |-> ValidatedList(a, "suggestions"),
                              strengths |-> ValidatedList(a, "strengths"),
                              weaknesses |-> ValidatedList(a, "weaknesses")]]

\* the catch block of analyzeText
AnalyzeTextCatch(text) == [thrown |-> "none", value |-> fallbackTextAnalysis(text)]

analyzeText(text, key, outcome) ==
    IF ~GeminiConfigured(key)
    THEN [thrown |-> "none", value |-> fallbackTextAnalysis(text)]
    ELSE LET jsonMatch == JSONMatch(outcome.text)
             parsed == JSONParse(jsonMatch.text)
             a == parsed.value
         IN  IF outcome.threw \/ ~jsonMatch.found \/ ~parsed.ok
             THEN AnalyzeTextCatch(text)
             ELSE [thrown |-> "none",
                   value |-> [readability |-> ValidatedScore(a, "readability"),
                              grammar |-> ValidatedScore(a, "grammar"),
                              structure |-> ValidatedScore(a, "structure"),
                              clarity |-> ValidatedScore(a, "clarity"),
                              suggestions |-> ValidatedList(a, "suggestions"),
                              strengths |-> ValidatedList(a, "strengths"),
                              weaknesses |-> ValidatedList(a, "weaknesses")]]

\* the call an analysis or feedback operation makes to the LLM, if any
LLMTrace(key, outcome) ==
    IF GeminiConfigured(key) THEN <<GenerateContentCall(outcome)>> ELSE <<>>

----------------------------------------------------------------------------
(* AIService.generateFeedback and AIService.generateFallbackFeedback.  The *)
(* text the template builds is described by its variable parts; every      *)
(* list item is a sequence of the strings it is made of.                   *)

\* 'quality' in analysis
IsCodeAnalysis(a) == "quality" \in DOMAIN a

ContentType(a) == IF IsCodeAnalysis(a) THEN "code" ELSE "document"

\* the mean of the metrics of the analysis
OverallScore(a) ==
    IF IsCodeAnalysis(a)
    THEN Scale(Add(Add(Add(Add(a.quality, a.complexity), a.maintainability),
                       a.performance), a.readability), 1, 5)
    ELSE Scale(Add(Add(Add(a.readability, a.grammar), a.structure), a.clarity), 1, 4)

\* x.toFixed(1), as a number: x rounded to one decimal
ToFixed1(x) == Num((2 * x.n * 10 + x.d) \div (2 * x.d), 10)

\* the items of a list of the analysis, numbered by the template
Items(list) == [i \in 1..Len(list) |-> <<list[i]>>]

DefaultStrengths(contentType) ==
    << <<"You've made a good effort in creating this ", contentType>>,
       <<"The structure shows logical thinking">>,
       <<"You're on the right track with your approach">> >>

DefaultWeaknesses ==
    << <<"Consider adding more detailed explanations">>,
       <<"Review for consistency and clarity">>,
       <<"Look for opportunities to enhance the overall quality">> >>

DefaultSuggestions(contentType) ==
    << <<"Take time to review and refine your work">>,
       <<"Consider getting feedback from peers or mentors">>,
       <<"Practice regularly to improve your skills">>,
       <<"Study examples of high-quality ", contentType, "s">>,
       <<"Don't hesitate to ask questions when you're unsure">> >>

\* the comparison written >= 0.3
FlagsPlagiarism_atThreshold(score) == Ge(score, Num(3, 10))

\* plagiarismResult.score > 0.3
FlagsPlagiarism(score) == Gt(score, Num(3, 10))

\* content is only used in the prompt of generateFeedback
generateFallbackFeedback(a, plagiarismResult) ==
    LET contentType == ContentType(a)
        overallScore == OverallScore(a)
    IN  [contentType |-> contentType,
         assessment |-> IF Ge(overallScore, Num(80, 1)) THEN "Excellent work!"
                        ELSE IF Ge(overallScore, Num(60, 1)) THEN "Good work!"
                        ELSE "shows potential",
         strengths |-> IF Len(a.strengths) > 0 THEN Items(a.strengths)
                       ELSE DefaultStrengths(contentType),
         weaknesses |-> IF Len(a.weaknesses) > 0 THEN Items(a.weaknesses)
                        ELSE DefaultWeaknesses,
         suggestions |-> IF Len(a.suggestions) > 0 THEN Items(a.suggestions)
                         ELSE DefaultSuggestions(contentType),
         highSimilarity |-> FlagsPlagiarism(plagiarismResult.score),
         similarityPercent |-> ToFixed1(Scale(plagiarismResult.score, 100, 1)),
         overallScore |-> ToFixed1(overallScore)]

UnableToGenerate == "Unable to generate feedback"

\* the feedback the LLM wrote: response.text() || 'Unable to generate feedback'
LLMFeedback(text) ==
    [llm |-> TRUE,
     text |-> text,
     unable |-> IF text = <<>> THEN UnableToGenerate ELSE ""]

\* the catch block of generateFeedback
FeedbackCatch(a, plagiarismResult) ==
    [thrown |-> "none", value |-> generateFallbackFeedback(a, plagiarismResult)]

generateFeedback(a, plagiarismResult, key, outcome) ==
    IF ~GeminiConfigured(key)
    THEN [thrown |-> "none", value |-> generateFallbackFeedback(a, plagiarismResult)]
    ELSE IF outcome.threw THEN FeedbackCatch(a, plagiarismResult)
    ELSE [thrown |-> "none", value |-> LLMFeedback(outcome.text)]

----------------------------------------------------------------------------
(* The stored submissions and AIService.analyzeSubmission.  A row of       *)
(* prisma.submission is a record [id, title, content, fileType,            *)
(* submitterId, status, aiAnalysis]; aiAnalysis is the row of              *)
(* prisma.aiAnalysis that belongs to it, which a delete of the submission  *)
(* removes with it.  Ids are numbers, fresh among the stored rows.         *)

\* submission.aiAnalysis of a submission that has not been analysed
NotAnalysed == [kind |-> "none"]

FileTypes == {"CODE", "DOCUMENT", "PRESENTATION", "OTHER"}

\* a call to prisma; threw tells whether it threw
PrismaCall(op, threw) == [op |-> op, threw |-> threw, text |-> <<>>]

\* the position of the row with this id, 0 if there is none
RowIndex(rows, id) ==
    IF \E i \in 1..Len(rows) : rows[i].id = id
    THEN CHOOSE i \in 1..Len(rows) : rows[i].id = id
    ELSE 0

\* the id prisma gives a new row
NewId(rows) ==
    IF rows = <<>> THEN 1
    ELSE 1 + (CHOOSE m \in {rows[i].id : i \in 1..Len(rows)} :
                  \A i \in 1..Len(rows) : rows[i].id <= m)

\* prisma.submission.create({data: {title, content, fileType, projectId,
\* submitterId, status: 'PENDING'}})
CreatedSubmission(rows, userId, data) ==
    [id |-> NewId(rows),
     title |-> data.title,
     content |-> data.content,
     fileType |-> data.fileType,
     submitterId |-> userId,
     status |-> "PENDING",
     aiAnalysis |-> NotAnalysed]

\* prisma.submission.update({data: {title: body.title, content:
\* body.content, fileType: body.fileType}}): a field the body does not hold
\* is undefined, and prisma leaves its column as it is
UpdatedSubmission(row, body) ==
    [row EXCEPT
        !.title = IF "title" \in DOMAIN body THEN body.title ELSE @,
        !.content = IF "content" \in DOMAIN body THEN body.content ELSE @,
        !.fileType = IF "fileType" \in DOMAIN body THEN body.fileType ELSE @]

RECURSIVE Sum(_)
Sum(numbers) ==
    IF Len(numbers) = 0 THEN Zero ELSE Add(Head(numbers), Sum(Tail(numbers)))

\* x / y for a finite y > 0
Quot(x, y) == IF x.d = 0 THEN x ELSE Num(x.n * y.d, x.d * y.n)

\* the mean of a list of numbers, 0 for the empty list
Mean(numbers) ==
    IF Len(numbers) = 0 THEN Zero ELSE Scale(Sum(numbers), 1, Len(numbers))

\* overallScore of analyzeSubmission
SubmissionOverallScore(isCode, a) ==
    IF isCode
    THEN Scale(Add(Add(Add(Add(a.quality, a.complexity), a.maintainability),
                       a.performance), a.readability), 1, 5)
    ELSE Scale(Add(Add(Add(a.readability, a.grammar), a.structure), a.clarity), 1, 4)

Confidence == Num(85, 100)

\* prisma.aiAnalysis.create({data: {...}}): the row analyzeSubmission
\* stores, from the analysis a and the result of detectPlagiarism; the
\* feedback is generated from both
AnalysisRow(sid, isCode, a, plagiarismResult, key, outcome) ==
    [kind |-> "aiAnalysis",
     submissionId |-> sid,
     analysis |-> a,
     plagiarismScore |-> plagiarismResult.score,
     similarityMatches |-> plagiarismResult.matches,
     aiFeedback |-> generateFeedback(a, plagiarismResult, key, outcome).value,
     overallScore |-> SubmissionOverallScore(isCode, a),
     confidence |-> Confidence]

\* llm holds the outcomes of the calls to the LLM: llm.analysis of the call
\* of analyzeCode or analyzeText, llm.similarity[i] of the i-th call of
\* calculateGeminiSimilarity, llm.feedback of the call of generateFeedback.
\* dbFails tells that the database cannot be reached, so that every prisma
\* call throws.  The result holds the error thrown, the table afterwards
\* and the calls made.
analyzeSubmission(rows, sid, dbFails, key, llm) ==
    LET i == RowIndex(rows, sid)
        findUnique == PrismaCall("prisma.submission.findUnique", dbFails)
        \* the catch block: the status is reset, and the error is thrown on
        Catch(calls) ==
            [thrown |-> "Failed to analyze submission",
             rows |-> IF i # 0 /\ ~dbFails
                      THEN [rows EXCEPT ![i].status = "PENDING"]
                      ELSE rows,
             trace |-> calls \o <<PrismaCall("prisma.submission.update",
                                             dbFails \/ i = 0)>>]
    IN  IF dbFails \/ i = 0 THEN Catch(<<findUnique>>)
        ELSE IF rows[i].aiAnalysis.kind # "none"
        THEN [thrown |-> "none", rows |-> rows, trace |-> <<findUnique>>]
        ELSE IF Len(trim(rows[i].content)) = 0 THEN Catch(<<findUnique>>)
        ELSE
        [thrown |-> "none",
             rows |-> [rows EXCEPT
                 ![i].aiAnalysis =
                     AnalysisRow(
                         sid, rows[i].fileType = "CODE",
                         IF rows[i].fileType = "CODE"
                         THEN analyzeCode(rows[i].content, key, llm.analysis).value
                         ELSE analyzeText(rows[i].content, key, llm.analysis).value,
                         detectPlagiarism(rows[i].content, sid, rows, FALSE,
                                          key, llm.similarity),
                         key, llm.feedback),
                 ![i].status = "REVIEWED"],
             trace |-> <<findUnique>>
                       \o LLMTrace(key, llm.analysis)
                       \o detectPlagiarismTrace(sid, rows, FALSE, key,
                                                llm.similarity)
                       \o LLMTrace(key, llm.feedback)
                       \o <<PrismaCall("prisma.aiAnalysis.create", FALSE),
                            PrismaCall("prisma.submission.update", FALSE)>>]

----------------------------------------------------------------------------
(* The route handlers of src/app/api.  A session is the record [id, role]  *)
(* of session.user; a response is a record [status, body].  The result of  *)
(* a handler holds its response, the tables afterwards and the calls it    *)
(* made to prisma and to the LLM.                                          *)

\* getServerSession returned null
NoSession == [id |-> 0, role |-> "none"]

\* session?.user?.id
Authenticated(s) == s.id # 0

\* no request has been answered yet
NoResponse == [status |-> 0, body |-> [kind |-> "none"]]

Message(message) == [kind |-> "message", message |-> message]

Unauthorized == [status |-> 401, body |-> Message("Unauthorized")]
NotFound == [status |-> 404, body |-> Message("Submission not found")]
Forbidden == [status |-> 403, body |-> Message("Forbidden")]
InternalServerError == [status |-> 500, body |-> Message("Internal server error")]

\* NextResponse.json(body): the status is 200
Ok(body) == [status |-> 200, body |-> body]

\* a handler that returned before it changed anything
Unchanged(resp, rows, projs, calls) ==
    [response |-> resp, rows |-> rows, projects |-> projs, trace |-> calls]

\* x.toFixed(3), as a number
ToFixed3(x) == Num((2 * x.n * 1000 + x.d) \div (2 * x.d), 1000)

\* the id detectPlagiarism is given by the test-detection route: the id of
\* no row
TestDetectionId == 0

PreviewLen == 100

\* aiContentScore > 0.6
IsAIContent(aiContentScore) == Gt(aiContentScore, Num(6, 10))

\* aiContentScore < 0.6
IsHumanContent(aiContentScore) == Gt(Num(6, 10), aiContentScore)

\* the results object of the response of the test-detection route
DetectionResults(content, aiContentScore, plagiarismResult) ==
    [kind |-> "detection",
     message |-> "Detection completed",
     content |-> substring(content, 0, PreviewLen) \o Ellipsis,
     aiContentScore |-> ToFixed3(aiContentScore),
     plagiarismScore |-> plagiarismResult.score,
     matches |-> plagiarismResult.matches,
     isAIContent |-> IsAIContent(aiContentScore),
     isHumanContent |-> IsHumanContent(aiContentScore),
     verdict |-> IF Gt(aiContentScore, Num(6, 10))
                 THEN "AI-GENERATED" ELSE "HUMAN-WRITTEN"]

\* POST /api/test-detection.  The handler does not read the session.
TestDetectionPOST(content, rows, projs, queryFails, key, outcomes) ==
    IF Len(content) = 0
    THEN Unchanged([status |-> 400, body |-> Message("Content is required")],
                   rows, projs, <<>>)
    ELSE Unchanged(
             Ok(DetectionResults(
                    content,
                    detectAIContent(content),
                    detectPlagiarism(content, TestDetectionId, rows,
                                     queryFails, key, outcomes))),
             rows, projs,
             detectPlagiarismTrace(TestDetectionId, rows, queryFails, key,
                                   outcomes))

\* the answer of the analyze route once analyzeSubmission has ended
AnalyzeResponse(id, projs, done) ==
    [response |->
         IF done.thrown = "none"
         THEN Ok([kind |-> "analysis",
                  message |-> "AI analysis completed successfully",
                  submissionId |-> id,
                  status |-> "REVIEWED"])
         ELSE [status |-> 500,
               body |-> [kind |-> "analysis",
                         message |-> "AI analysis failed",
                         submissionId |-> id,
                         status |-> "PENDING"]],
     rows |-> done.rows,
     projects |-> projs,
     trace |-> done.trace]

\* POST /api/analyze/[id]
AnalyzePOST(s, id, rows, projs, dbFails, key, llm) ==
    IF ~Authenticated(s) THEN Unchanged(Unauthorized, rows, projs, <<>>)
    ELSE AnalyzeResponse(id, projs,
                         analyzeSubmission(rows, id, dbFails, key, llm))

\* submissionSchema.parse(body) does not throw
ValidSubmission(body) ==
    /\ {"title", "content", "fileType"} \subseteq DOMAIN body
    /\ Len(body.title) >= 1
    /\ Len(body.content) >= 1
    /\ body.fileType \in FileTypes

\* POST /api/submissions.  projs holds the ids of the users that own a
\* project.
SubmissionsPOST(s, body, rows, projs, dbFails) ==
    IF ~Authenticated(s) THEN Unchanged(Unauthorized, rows, projs, <<>>)
    ELSE IF ~ValidSubmission(body)
    THEN Unchanged([status |-> 400, body |-> Message("Validation error")],
                   rows, projs, <<>>)
    ELSE IF dbFails
    THEN Unchanged(InternalServerError, rows, projs,
                   <<PrismaCall("prisma.project.findFirst", TRUE)>>)
    ELSE
    LET submission == CreatedSubmission(rows, s.id, body)
    IN  [response |-> [status |-> 201,
                       body |-> [kind |-> "submission",
                                 message |-> "Submission created successfully",
                                 submission |-> submission]],
         rows |-> Append(rows, submission),
         projects |-> projs \cup {s.id},
         trace |-> <<PrismaCall("prisma.project.findFirst", FALSE)>>
                   \o (IF s.id \in projs THEN <<>>
                       ELSE <<PrismaCall("prisma.project.create", FALSE)>>)
                   \o <<PrismaCall("prisma.submission.create", FALSE)>>]

\* the rows of a user, as findMany({where: {submitterId}}) returns them
RowsOf(rows, userId) ==
    LET Mine(r) == r.submitterId = userId
    IN  SelectSeq(rows, Mine)

\* orderBy: {createdAt: 'desc'}
Newest(rows) == [i \in 1..Len(rows) |-> rows[Len(rows) + 1 - i]]

\* take: n
Take(rows, n) == SubSeq(rows, 1, IF Len(rows) < n THEN Len(rows) ELSE n)

DefaultLimit == 10

\* GET /api/submissions, without search parameters: page 1, limit 10, every
\* status
SubmissionsGET(s, rows, projs, dbFails) ==
    IF ~Authenticated(s) THEN Unchanged(Unauthorized, rows, projs, <<>>)
    ELSE IF dbFails
    THEN Unchanged(InternalServerError, rows, projs,
                   <<PrismaCall("prisma.submission.findMany", TRUE)>>)
    ELSE Unchanged(
             Ok([kind |-> "submissions",
                 submissions |-> Take(Newest(RowsOf(rows, s.id)), DefaultLimit),
                 total |-> Len(RowsOf(rows, s.id))]),
             rows, projs,
             <<PrismaCall("prisma.submission.findMany", FALSE),
               PrismaCall("prisma.submission.count", FALSE)>>)

\* GET /api/submissions/[id]
SubmissionGET(s, id, rows, projs, dbFails) ==
    LET i == RowIndex(rows, id)
        findUnique == <<PrismaCall("prisma.submission.findUnique", dbFails)>>
    IN  IF ~Authenticated(s) THEN Unchanged(Unauthorized, rows, projs, <<>>)
        ELSE IF dbFails
        THEN Unchanged(InternalServerError, rows, projs, findUnique)
        ELSE IF i = 0 THEN Unchanged(NotFound, rows, projs, findUnique)
        ELSE IF rows[i].submitterId # s.id /\ s.role # "INSTRUCTOR"
        THEN Unchanged(Forbidden, rows, projs, findUnique)
        ELSE Unchanged(Ok([kind |-> "submission", submission |-> rows[i]]),
                       rows, projs, findUnique)

\* the handler without the check of the submitter
SubmissionPUT_anyUser(s, id, body, rows, projs, dbFails) ==
    LET i == RowIndex(rows, id)
        findUnique == <<PrismaCall("prisma.submission.findUnique", dbFails)>>
    IN  IF ~Authenticated(s) THEN Unchanged(Unauthorized, rows, projs, <<>>)
        ELSE IF dbFails
        THEN Unchanged(InternalServerError, rows, projs, findUnique)
        ELSE IF i = 0 THEN Unchanged(NotFound, rows, projs, findUnique)
        ELSE
        [response |-> Ok([kind |-> "submission",
                          message |-> "Submission updated successfully",
                          submission |-> UpdatedSubmission(rows[i], body)]),
         rows |-> [rows EXCEPT ![i] = UpdatedSubmission(rows[i], body)],
         projects |-> projs,
         trace |-> findUnique
                   \o <<PrismaCall("prisma.submission.update", FALSE)>>]

\* PUT /api/submissions/[id]
SubmissionPUT(s, id, body, rows, projs, dbFails) ==
    LET i == RowIndex(rows, id)
        findUnique == <<PrismaCall("prisma.submission.findUnique", dbFails)>>
    IN  IF ~Authenticated(s) THEN Unchanged(Unauthorized, rows, projs, <<>>)
        ELSE IF dbFails
        THEN Unchanged(InternalServerError, rows, projs, findUnique)
        ELSE IF i = 0 THEN Unchanged(NotFound, rows, projs, findUnique)
        ELSE IF rows[i].submitterId # s.id
        THEN Unchanged(Forbidden, rows, projs, findUnique)
        ELSE
        [response |-> Ok([kind |-> "submission",
                          message |-> "Submission updated successfully",
                          submission |-> UpdatedSubmission(rows[i], body)]),
         rows |-> [rows EXCEPT ![i] = UpdatedSubmission(rows[i], body)],
         projects |-> projs,
         trace |-> findUnique
                   \o <<PrismaCall("prisma.submission.update", FALSE)>>]

\* DELETE /api/submissions/[id]
SubmissionDELETE(s, id, rows, projs, dbFails) ==
    LET i == RowIndex(rows, id)
        findUnique == <<PrismaCall("prisma.submission.findUnique", dbFails)>>
        Other(r) == r.id # id
    IN  IF ~Authenticated(s) THEN Unchanged(Unauthorized, rows, projs, <<>>)
        ELSE IF dbFails
        THEN Unchanged(InternalServerError, rows, projs, findUnique)
        ELSE IF i = 0 THEN Unchanged(NotFound, rows, projs, findUnique)
        ELSE IF rows[i].submitterId # s.id /\ s.role # "ADMIN"
        THEN Unchanged(Forbidden, rows, projs, findUnique)
        ELSE
        [response |-> Ok(Message("Submission deleted successfully")),
         rows |-> SelectSeq(rows, Other),
         projects |-> projs,
         trace |-> findUnique
                   \o <<PrismaCall("prisma.submission.delete", FALSE)>>]

DashboardTake == 10

\* GET /api/dashboard
DashboardGET(s, rows, projs, dbFails) ==
    IF ~Authenticated(s) THEN Unchanged(Unauthorized, rows, projs, <<>>)
    ELSE IF dbFails
    THEN Unchanged(InternalServerError, rows, projs,
                   <<PrismaCall("prisma.submission.findMany", TRUE)>>)
    ELSE
    LET found == Take(Newest(RowsOf(rows, s.id)), DashboardTake)
        Pending(r) == r.status = "PENDING"
        Completed(r) == r.status = "REVIEWED" \/ r.status = "APPROVED"
        \* s.aiAnalysis?.overallScore is truthy
        Scored(r) == r.aiAnalysis.kind # "none" /\ r.aiAnalysis.overallScore # Zero
        scored == SelectSeq(found, Scored)
        scoresWithAnalysis == [j \in 1..Len(scored) |-> scored[j].aiAnalysis.overallScore]
    IN  Unchanged(
            Ok([kind |-> "dashboard",
                totalSubmissions |-> Len(found),
                pendingReviews |-> Len(SelectSeq(found, Pending)),
                completedReviews |-> Len(SelectSeq(found, Completed)),
                averageScore |-> Mean(scoresWithAnalysis),
                recentSubmissions |->
                    [j \in 1..Len(found) |->
                        [id |-> found[j].id,
                         title |-> found[j].title,
                         status |-> found[j].status,
                         analysed |-> found[j].aiAnalysis.kind # "none"]]]),
            rows, projs,
            <<PrismaCall("prisma.submission.findMany", FALSE)>>)

\* (s.aiAnalysis?.plagiarismScore || 0) > 0.3
CountsAsPlagiarism(plagiarismScore) == Gt(plagiarismScore, Num(3, 10))

\* GET /api/analytics: the overview of the response.  Every stored row is
\* newer than startDate.  The distributions and the monthly trends, further
\* aggregates of the same rows, are left out.
AnalyticsGET(s, rows, projs, dbFails) ==
    IF ~Authenticated(s) THEN Unchanged(Unauthorized, rows, projs, <<>>)
    ELSE IF dbFails
    THEN Unchanged(InternalServerError, rows, projs,
                   <<PrismaCall("prisma.submission.findMany", TRUE)>>)
    ELSE
    LET found == RowsOf(rows, s.id)
        WithAnalysis(r) == r.aiAnalysis.kind # "none"
        submissionsWithAnalysis == SelectSeq(found, WithAnalysis)
        n == Len(submissionsWithAnalysis)
        scores == [j \in 1..n |-> submissionsWithAnalysis[j].aiAnalysis.overallScore]
        midPoint == n \div 2
        firstHalfAvg == Mean(SubSeq(scores, 1, midPoint))
        secondHalfAvg == Mean(SubSeq(scores, midPoint + 1, n))
        Plagiarised(r) == CountsAsPlagiarism(r.aiAnalysis.plagiarismScore)
        plagiarismCount == Len(SelectSeq(submissionsWithAnalysis, Plagiarised))
    IN  Unchanged(
            Ok([kind |-> "analytics",
                totalSubmissions |-> Len(found),
                averageScore |-> Mean(scores),
                improvementRate |->
                    IF Gt(firstHalfAvg, Zero)
                    THEN Scale(Quot(Sub(secondHalfAvg, firstHalfAvg),
                                    firstHalfAvg), 100, 1)
                    ELSE Zero,
                plagiarismCount |-> plagiarismCount,
                plagiarismRate |-> IF n > 0 THEN Num(plagiarismCount * 100, n)
                                   ELSE Zero]),
            rows, projs,
            <<PrismaCall("prisma.submission.findMany", FALSE)>>)

----------------------------------------------------------------------------
(* Inputs *)

RECURSIVE TextsOver(_, _)
TextsOver(vocab, k) ==
    IF k = 0 THEN {<<>>}
    ELSE LET shorter == TextsOver(vocab, k - 1)
         IN  shorter \cup {t \o v : t \in shorter, v \in vocab}

\* the similarity scorer: texts of at most MaxSimTokens pieces
MaxSimTokens == 2

A20 == [i \in 1..WindowLen |-> "a"]

SimVocab == {<<"a">>, <<"b">>, <<"A">>, <<" ">>, A20}

SimTexts == TextsOver(SimVocab, MaxSimTokens)

\* the authorship heuristic: texts of at most MaxAITokens pieces
MaxAITokens == 3

AIVocab == {<<" ">>, <<"\n">>, <<".">>, <<"A">>, <<"I">>,
            <<"t","h","u","s">>, <<"a","a">>}

\* a text dense in first-person pronouns and contractions
HumanExample == <<
    "I", " ", "t", "h", "i", "n", "k", " ", "I", "'", "m", " ",
    "r", "e", "a", "l", "l", "y", " ", "h", "a", "p", "p", "y",
    " ", "w", "i", "t", "h", " ", "h", "o", "w", " ", "t", "h",
    "i", "s", " ", "t", "u", "r", "n", "e", "d", " ", "o", "u",
    "t", ",", " ", "h", "o", "n", "e", "s", "t", "l", "y" >>

\* a text using only formal connectives
FormalExample == <<
    "F", "u", "r", "t", "h", "e", "r", "m", "o", "r", "e", ",",
    " ", "i", "t", " ", "i", "s", " ", "i", "m", "p", "o", "r",
    "t", "a", "n", "t", " ", "t", "o", " ", "n", "o", "t", "e",
    " ", "t", "h", "a", "t", " ", "t", "h", "e", " ", "i", "m",
    "p", "l", "e", "m", "e", "n", "t", "a", "t", "i", "o", "n",
    " ", "u", "t", "i", "l", "i", "z", "e", "s", " ", "a", " ",
    "c", "o", "m", "p", "r", "e", "h", "e", "n", "s", "i", "v",
    "e", " ", "f", "r", "a", "m", "e", "w", "o", "r", "k" >>

AITexts == TextsOver(AIVocab, MaxAITokens) \cup {HumanExample, FormalExample}

\* the submission table: at most MaxSubmissions rows, of which at most
\* MaxVaried have a content other than PlagFiller
MaxSubmissions == 11
MaxVaried == 1

PlagFiller == <<"a">>
PlagVaried == {<<"a", " ", "b">>, <<"a", " ", "c">>, <<"t","h","u","s">>, <<>>}
PlagCandidates == {<<"a", " ", "b">>, <<"t","h","u","s">>, <<"a", " ">>}

\* with the LLM configured the table has at most MaxGeminiRows rows
MaxGeminiRows == 2

\* a value of GEMINI_API_KEY other than the placeholder
SomeKey == "AIza-key"

GeminiKeys == {"", PlaceholderKey, SomeKey}

\* what response.text() can be
GeminiReplies == {<<"0", ".", "7", "5">>, <<"0", ".", "2", "5">>, <<"0", ".", "2">>,
                  <<"2">>, <<"n", "o">>}

\* the outcomes of a call model.generateContent(prompt)
GeminiOutcomes ==
    {[threw |-> TRUE, text |-> <<>>]} \cup
    {[threw |-> FALSE, text |-> t] : t \in GeminiReplies}


\* the texts given to analyzeCode and analyzeText
AnalysisTexts ==
    {<<"a">>,
     <<"f", "u", "n", "c", "t", "i", "o", "n", " ", "f">>,
     <<
    "c", "o", "n", "s", "t", " ", "a", " ", "=", " ", "(", "\n",
    "/", "/", " ", "x" >>,
     <<"a", "\n", "\n", "b">>,
     <<"H", "i", ".", ".", " ", "A", "B", "C">>}

\* what response.text() can be for an analysis prompt
AnalysisReplies ==
    {<<"n", "o", " ", "j", "s", "o", "n">>,
     <<"{", "o", "o", "p", "s", "}">>,
     <<"}", " ", "{">>,
     <<"o", "k", " ">> \o JSONScores \o <<" ", "d", "o", "n", "e">>,
     JSONTextScores}

AnalysisOutcomes ==
    {[threw |-> TRUE, text |-> <<>>]} \cup
    {[threw |-> FALSE, text |-> t] : t \in AnalysisReplies}

\* what response.text() can be for the feedback prompt
FeedbackReplies == {<<>>, <<"G", "o", "o", "d", " ", "w", "o", "r", "k">>}

FeedbackOutcomes ==
    {[threw |-> TRUE, text |-> <<>>]} \cup
    {[threw |-> FALSE, text |-> t] : t \in FeedbackReplies}

\* results of detectPlagiarism given to generateFeedback: nothing found, a
\* match at the score 0.3 (LLM path), and the AI-content match
PlagSamples ==
    <<[score |-> Zero, matches |-> <<>>],
     [score |-> Num(3, 10),
      matches |-> <<[text |-> <<"a">> \o Ellipsis, similarity |-> Num(3, 10),
                     source |-> <<"title", 1>>]>>],
     [score |-> One,
      matches |-> <<[text |-> AIMatchText, similarity |-> One,
                     source |-> AIMatchSource]>>]>>

\* the largest table the route handlers are given
MaxRouteRows == 2

\* the users that sign in; a STUDENT is neither an INSTRUCTOR nor an ADMIN
Student == [id |-> 1, role |-> "STUDENT"]
Instructor == [id |-> 2, role |-> "INSTRUCTOR"]
Admin == [id |-> 3, role |-> "ADMIN"]
RouteUsers == {Student, Instructor, Admin}
RouteSessions == {NoSession} \cup RouteUsers

\* the users that submit
RouteSubmitters == {Student, Instructor}

\* request bodies the schema of POST /api/submissions accepts
ValidBodies ==
    {[title |-> <<"t">>, content |-> <<"t", "h", "u", "s">>, fileType |-> "DOCUMENT"],
     [title |-> <<"t">>, content |-> <<"a", "b">>, fileType |-> "CODE"]}

\* request bodies of POST /api/submissions
PostBodies ==
    ValidBodies \cup
    {[title |-> <<"t">>, content |-> <<>>, fileType |-> "DOCUMENT"]}

\* request bodies of PUT /api/submissions/[id]
PutBodies ==
    {[title |-> <<"u">>, content |-> <<"a", "b">>, fileType |-> "CODE"],
     [title |-> <<"u">>, content |-> <<>>, fileType |-> "CODE"]}

\* request bodies of POST /api/test-detection: their content
DetectionContents ==
    {<<>>, <<"t", "h", "u", "s">>,
     <<
     "x", ".", " ", "x", ".", " ", "x", ".", " ", "x", " ", "a",
     "n", "a", "l", "y", "s", "i", "s" >>}

\* the keys with which the route handlers are explored
RouteKeys == {"", SomeKey}

\* what the LLM answers a request for a similarity while a route handler
\* runs: every call of one request has the same outcome
RouteSimilarityOutcomes ==
    {[threw |-> TRUE, text |-> <<>>],
     [threw |-> FALSE, text |-> <<"0", ".", "3">>],
     [threw |-> FALSE, text |-> <<"0", ".", "7", "5">>]}

\* the outcomes to explore with this key: without a key no call is made
SimilarityOutcomesFor(key) ==
    IF GeminiConfigured(key) THEN RouteSimilarityOutcomes
    ELSE {[threw |-> FALSE, text |-> <<>>]}

\* the outcomes of the calls to the LLM while a route handler runs: the
\* calls of analyzeCode, analyzeText and generateFeedback throw, each of the
\* at most n calls of calculateGeminiSimilarity has the outcome o
RouteLLM(o, n) ==
    [analysis |-> [threw |-> TRUE, text |-> <<>>],
     similarity |-> [i \in 1..n |-> o],
     feedback |-> [threw |-> TRUE, text |-> <<>>]]

----------------------------------------------------------------------------
(* Operations *)

None == [n |-> -1, d |-> 1]
NoLocals == [finalScore |-> None]
NoPlag == [score |-> None, matches |-> <<>>]
NoAnalysis == [kind |-> "none"]
NoFeedback == [kind |-> "none"]

\* no call has been made yet; the arguments of the call are already chosen
InitSim ==
    /\ submissions = <<>>
    /\ call = "none"
    /\ text1 \in SimTexts
    /\ text2 \in SimTexts
    /\ submissionId = 0
    /\ simResult = None
    /\ aiLocals = NoLocals
    /\ plagResult = NoPlag
    /\ dbError = FALSE
    /\ geminiKey = ""
    /\ thrown = "none"
    /\ trace = <<>>
    /\ analysis = NoAnalysis
    /\ feedback = NoFeedback
    /\ session = NoSession
    /\ response = NoResponse
    /\ pc = <<>>
    /\ local = <<>>
    /\ projects = {}

\* the call calculateLocalSimilarity(text1, text2)
CallSimilarity ==
    /\ call = "none"
    /\ call' = "calculateLocalSimilarity"
    /\ simResult' = calculateLocalSimilarity(text1, text2)
    /\ UNCHANGED <<pc, local, session, response, projects, analysis, feedback, submissions, text1, text2, submissionId, aiLocals, plagResult,
                 dbError, geminiKey, thrown, trace>>

SimNext == CallSimilarity

SpecSim == InitSim /\ [][SimNext]_vars

InitAI ==
    /\ submissions = <<>>
    /\ call = "none"
    /\ text1 \in AITexts
    /\ text2 = <<>>
    /\ submissionId = 0
    /\ simResult = None
    /\ aiLocals = NoLocals
    /\ plagResult = NoPlag
    /\ dbError = FALSE
    /\ geminiKey = ""
    /\ thrown = "none"
    /\ trace = <<>>
    /\ analysis = NoAnalysis
    /\ feedback = NoFeedback
    /\ session = NoSession
    /\ response = NoResponse
    /\ pc = <<>>
    /\ local = <<>>
    /\ projects = {}

\* the call detectAIContent(text1)
CallDetectAIContent ==
    /\ call = "none"
    /\ call' = "detectAIContent"
    /\ aiLocals' = detectAIContentLocals(text1)
    /\ UNCHANGED <<pc, local, session, response, projects, analysis, feedback, submissions, text1, text2, submissionId, simResult, plagResult,
                 dbError, geminiKey, thrown, trace>>

AINext == CallDetectAIContent

SpecAI == InitAI /\ [][AINext]_vars

InitPlag ==
    /\ submissions = <<>>
    /\ call = "none"
    /\ text1 \in PlagCandidates
    /\ text2 = <<>>
    /\ submissionId \in {TestDetectionId, 1}
    /\ simResult = None
    /\ aiLocals = NoLocals
    /\ plagResult = NoPlag
    /\ dbError = FALSE
    /\ geminiKey \in GeminiKeys
    /\ thrown = "none"
    /\ trace = <<>>
    /\ analysis = NoAnalysis
    /\ feedback = NoFeedback
    /\ session = NoSession
    /\ response = NoResponse
    /\ pc = <<>>
    /\ local = <<>>
    /\ projects = {}

Varied(rows) == Cardinality({i \in 1..Len(rows) : rows[i].content # PlagFiller})

\* the largest table explored
RowLimit == IF GeminiConfigured(geminiKey) THEN MaxGeminiRows ELSE MaxSubmissions

\* the number of calls to the LLM detectPlagiarism makes
GeminiCalls(queryFails) ==
    IF GeminiConfigured(geminiKey) /\ ~queryFails
    THEN Len(OtherSubmissions(submissions, submissionId)) ELSE 0

\* POST /api/submissions of a user that is signed in: a new row; the schema
\* requires a non-empty content
CreateSubmission(content) ==
    /\ call = "none"
    /\ content # <<>>
    /\ Len(submissions) < RowLimit
    /\ LET id == NewId(submissions)
       IN  submissions' = Append(submissions,
               CreatedSubmission(submissions, Student.id,
                                 [title |-> <<"title", id>>,
                                  content |-> content,
                                  fileType |-> "DOCUMENT"]))
    /\ Varied(submissions') <= MaxVaried
    /\ UNCHANGED <<pc, local, session, response, projects, analysis, feedback, call, text1, text2, submissionId, simResult, aiLocals,
                   plagResult, dbError, geminiKey, thrown, trace>>

\* PUT /api/submissions/[id] by the submitter: the content is replaced by
\* body.content, which may be empty
UpdateSubmission(id, content) ==
    /\ call = "none"
    /\ id \in 1..Len(submissions)
    /\ submissions' = [submissions EXCEPT
                           ![id] = UpdatedSubmission(@, [content |-> content])]
    /\ Varied(submissions') <= MaxVaried
    /\ UNCHANGED <<pc, local, session, response, projects, analysis, feedback, call, text1, text2, submissionId, simResult, aiLocals,
                   plagResult, dbError, geminiKey, thrown, trace>>

\* the call detectPlagiarism(text1, submissionId)
CallDetectPlagiarism(queryFails, outcomes) ==
    /\ call = "none"
    /\ call' = "detectPlagiarism"
    /\ dbError' = queryFails
    /\ plagResult' = detectPlagiarism(text1, submissionId, submissions, queryFails,
                                     geminiKey, outcomes)
    /\ thrown' = detectPlagiarismThrown(queryFails)
    /\ trace' = detectPlagiarismTrace(submissionId, submissions, queryFails,
                                     geminiKey, outcomes)
    /\ UNCHANGED <<pc, local, session, response, projects, analysis, feedback, submissions, text1, text2, submissionId, simResult, aiLocals,
                   geminiKey>>

PlagNext ==
    \/ \E content \in PlagVaried \cup {PlagFiller} : CreateSubmission(content)
    \/ \E id \in 1..MaxSubmissions, content \in PlagVaried \cup {PlagFiller} :
           UpdateSubmission(id, content)
    \/ \E queryFails \in BOOLEAN :
           \E outcomes \in [1..GeminiCalls(queryFails) -> GeminiOutcomes] :
               CallDetectPlagiarism(queryFails, outcomes)

SpecPlag == InitPlag /\ [][PlagNext]_vars

\* no call to the LLM is made, so it has no outcome
NoOutcome == [threw |-> FALSE, text |-> <<>>]

\* the outcomes to explore for a call to the LLM
OutcomesOf(outcomes) == IF GeminiConfigured(geminiKey) THEN outcomes ELSE {NoOutcome}

InitAnalysis ==
    /\ submissions = <<>>
    /\ call = "none"
    /\ text1 \in AnalysisTexts
    /\ text2 = <<>>
    /\ submissionId = 0
    /\ simResult = None
    /\ aiLocals = NoLocals
    /\ \E i \in DOMAIN PlagSamples : plagResult = PlagSamples[i]
    /\ dbError = FALSE
    /\ geminiKey \in GeminiKeys
    /\ thrown = "none"
    /\ trace = <<>>
    /\ analysis = NoAnalysis
    /\ feedback = NoFeedback
    /\ session = NoSession
    /\ response = NoResponse
    /\ pc = <<>>
    /\ local = <<>>
    /\ projects = {}

\* the call analyzeCode(text1)
CallAnalyzeCode(outcome) ==
    /\ call = "none"
    /\ call' = "analyzeCode"
    /\ analysis' = analyzeCode(text1, geminiKey, outcome).value
    /\ thrown' = analyzeCode(text1, geminiKey, outcome).thrown
    /\ trace' = LLMTrace(geminiKey, outcome)
    /\ UNCHANGED <<pc, local, session, response, projects, feedback, submissions, text1, text2, submissionId, simResult,
                   aiLocals, plagResult, dbError, geminiKey>>

\* the call analyzeText(text1)
CallAnalyzeText(outcome) ==
    /\ call = "none"
    /\ call' = "analyzeText"
    /\ analysis' = analyzeText(text1, geminiKey, outcome).value
    /\ thrown' = analyzeText(text1, geminiKey, outcome).thrown
    /\ trace' = LLMTrace(geminiKey, outcome)
    /\ UNCHANGED <<pc, local, session, response, projects, feedback, submissions, text1, text2, submissionId, simResult,
                   aiLocals, plagResult, dbError, geminiKey>>

\* the call generateFeedback(text1, analysis, plagResult) on the analysis
\* that was returned
CallGenerateFeedback(outcome) ==
    /\ call \in {"analyzeCode", "analyzeText"}
    /\ thrown = "none"
    /\ call' = "generateFeedback"
    /\ feedback' = generateFeedback(analysis, plagResult, geminiKey, outcome).value
    /\ thrown' = generateFeedback(analysis, plagResult, geminiKey, outcome).thrown
    /\ trace' = LLMTrace(geminiKey, outcome)
    /\ UNCHANGED <<pc, local, session, response, projects, analysis, submissions, text1, text2, submissionId, simResult,
                   aiLocals, plagResult, dbError, geminiKey>>

AnalysisNext ==
    \/ \E outcome \in OutcomesOf(AnalysisOutcomes) : CallAnalyzeCode(outcome)
    \/ \E outcome \in OutcomesOf(AnalysisOutcomes) : CallAnalyzeText(outcome)
    \/ \E outcome \in OutcomesOf(FeedbackOutcomes) : CallGenerateFeedback(outcome)

SpecAnalysis == InitAnalysis /\ [][AnalysisNext]_vars

\* the table after owners[1..n] posted bodies[1..n], one after the other
RECURSIVE Posted(_, _, _)
Posted(n, owners, bodies) ==
    IF n = 0 THEN <<>>
    ELSE SubmissionsPOST(owners[n], bodies[n], Posted(n - 1, owners, bodies),
                         {}, FALSE).rows

\* the table after the rows with the ids 1..n were analysed, in this order
RECURSIVE Analysed(_, _, _, _)
Analysed(rows, n, key, o) ==
    IF n = 0 THEN rows
    ELSE analyzeSubmission(Analysed(rows, n - 1, key, o), n, FALSE, key,
                           RouteLLM(o, Len(rows))).rows

\* a table that requests have built, and one request to a route handler
InitRoutes ==
    /\ \E n \in 0..MaxRouteRows :
       \E owners \in [1..n -> RouteSubmitters], bodies \in [1..n -> ValidBodies] :
       \E key \in RouteKeys, analysed \in BOOLEAN :
       \E o \in IF analysed THEN SimilarityOutcomesFor(key) ELSE {NoOutcome} :
           /\ geminiKey = key
           /\ submissions = IF analysed
                           THEN Analysed(Posted(n, owners, bodies), n, key, o)
                           ELSE Posted(n, owners, bodies)
           /\ projects = {owners[i].id : i \in 1..n}
    /\ call = "none"
    /\ text1 = <<>>
    /\ text2 = <<>>
    /\ submissionId = 0
    /\ simResult = None
    /\ aiLocals = NoLocals
    /\ plagResult = NoPlag
    /\ dbError = FALSE
    /\ thrown = "none"
    /\ trace = <<>>
    /\ analysis = NoAnalysis
    /\ feedback = NoFeedback
    /\ session = NoSession
    /\ response = NoResponse
    /\ pc = <<>>
    /\ local = <<>>

\* a route handler answers the request of s about the submission id with
\* the content given
Answer(route, s, id, content, dbFails, result) ==
    /\ call' = route
    /\ session' = s
    /\ submissionId' = id
    /\ text1' = content
    /\ dbError' = dbFails
    /\ response' = result.response
    /\ submissions' = result.rows
    /\ projects' = result.projects
    /\ trace' = result.trace
    /\ UNCHANGED <<pc, local, text2, simResult, aiLocals, plagResult, geminiKey, thrown,
                   analysis, feedback>>

RequestTestDetection(s, content, queryFails, o) ==
    /\ call = "none"
    /\ \E result \in {TestDetectionPOST(content, submissions, projects, queryFails,
                          geminiKey, RouteLLM(o, Len(submissions)).similarity)} :
           Answer("POST /api/test-detection", s, TestDetectionId, content, queryFails, result)

RequestAnalyze(s, id, dbFails, o) ==
    /\ call = "none"
    /\ \E result \in {AnalyzePOST(s, id, submissions, projects, dbFails, geminiKey,
                          RouteLLM(o, Len(submissions)))} :
           Answer("POST /api/analyze/[id]", s, id, <<>>, dbFails, result)

RequestCreate(s, body, dbFails) ==
    /\ call = "none"
    /\ \E result \in {SubmissionsPOST(s, body, submissions, projects, dbFails)} :
           Answer("POST /api/submissions", s, 0, body.content, dbFails, result)

RequestList(s, dbFails) ==
    /\ call = "none"
    /\ \E result \in {SubmissionsGET(s, submissions, projects, dbFails)} :
           Answer("GET /api/submissions", s, 0, <<>>, dbFails, result)

RequestGet(s, id, dbFails) ==
    /\ call = "none"
    /\ \E result \in {SubmissionGET(s, id, submissions, projects, dbFails)} :
           Answer("GET /api/submissions/[id]", s, id, <<>>, dbFails, result)

RequestPut(s, id, body, dbFails) ==
    /\ call = "none"
    /\ \E result \in {SubmissionPUT(s, id, body, submissions, projects, dbFails)} :
           Answer("PUT /api/submissions/[id]", s, id, body.content, dbFails, result)

RequestDelete(s, id, dbFails) ==
    /\ call = "none"
    /\ \E result \in {SubmissionDELETE(s, id, submissions, projects, dbFails)} :
           Answer("DELETE /api/submissions/[id]", s, id, <<>>, dbFails, result)

RequestDashboard(s, dbFails) ==
    /\ call = "none"
    /\ \E result \in {DashboardGET(s, submissions, projects, dbFails)} :
           Answer("GET /api/dashboard", s, 0, <<>>, dbFails, result)

RequestAnalytics(s, dbFails) ==
    /\ call = "none"
    /\ \E result \in {AnalyticsGET(s, submissions, projects, dbFails)} :
           Answer("GET /api/analytics", s, 0, <<>>, dbFails, result)

\* the ids requests name: those of the rows, and one of no row
RouteIds == 1..(MaxRouteRows + 1)

RoutesNext ==
    \/ \E s \in RouteSessions, content \in DetectionContents, queryFails \in BOOLEAN :
       \E o \in SimilarityOutcomesFor(geminiKey) :
           RequestTestDetection(s, content, queryFails, o)
    \/ \E s \in RouteSessions, id \in RouteIds, dbFails \in BOOLEAN :
       \E o \in SimilarityOutcomesFor(geminiKey) :
           RequestAnalyze(s, id, dbFails, o)
    \/ \E s \in RouteSessions, body \in PostBodies, dbFails \in BOOLEAN :
           RequestCreate(s, body, dbFails)
    \/ \E s \in RouteSessions, dbFails \in BOOLEAN : RequestList(s, dbFails)
    \/ \E s \in RouteSessions, id \in RouteIds, dbFails \in BOOLEAN :
           RequestGet(s, id, dbFails)
    \/ \E s \in RouteSessions, id \in RouteIds, body \in PutBodies, dbFails \in BOOLEAN :
           RequestPut(s, id, body, dbFails)
    \/ \E s \in RouteSessions, id \in RouteIds, dbFails \in BOOLEAN :
           RequestDelete(s, id, dbFails)
    \/ \E s \in RouteSessions, dbFails \in BOOLEAN : RequestDashboard(s, dbFails)
    \/ \E s \in RouteSessions, dbFails \in BOOLEAN : RequestAnalytics(s, dbFails)

SpecRoutes == InitRoutes /\ [][RoutesNext]_vars

----------------------------------------------------------------------------
(* AIService.analyzeSubmission, one await at a time.  Between two awaits   *)
(* of a call the other calls and the other requests can run, so a call is  *)
(* a sequence of steps: findUnique, the analysis, detectPlagiarism,        *)
(* generateFeedback, aiAnalysis.create, submission.update, and the catch   *)
(* block.  submission.aiAnalysis is one row or null: the relation is       *)
(* one-to-one, its key submissionId is unique, and the create of a second  *)
(* row for a submission is rejected, as is the create of a row for a       *)
(* submission that is not stored.                                          *)

\* the calls of analyzeSubmission that are made
MaxCalls == 2
Calls == 1..MaxCalls

\* the stored submissions the calls find
MaxStored == 1

\* the reply of the LLM to each prompt, when its call does not throw
StepReplies ==
    [analyzeCode |-> <<"o", "k", " ">> \o JSONScores,
     analyzeText |-> JSONTextScores,
     similarity |-> <<"0", ".", "7", "5">>,
     feedback |-> <<"G", "o", "o", "d">>]

\* the outcomes of a call to the LLM: without a key no call is made
StepOutcomes(prompt) ==
    IF GeminiConfigured(geminiKey)
    THEN {[threw |-> TRUE, text |-> <<>>],
          [threw |-> FALSE, text |-> StepReplies[prompt]]}
    ELSE {[threw |-> FALSE, text |-> <<>>]}

\* the local variables of a call that has not started
NoCall ==
    [sid |-> 0,
     before |-> NotAnalysed,
     content |-> <<>>,
     isCode |-> FALSE,
     analysis |-> NotAnalysed,
     plagiarismResult |-> NotAnalysed,
     aiAnalysis |-> NotAnalysed,
     error |-> "none",
     failed |-> FALSE,
     llmCalls |-> 0]

\* the row with this id when the call is made, NotAnalysed if there is none
RowBefore(rows, sid) ==
    IF RowIndex(rows, sid) = 0 THEN NotAnalysed ELSE rows[RowIndex(rows, sid)]

\* a call has ended when it returned or threw
Ended(p) == pc[p] \in {"returned", "thrown"}

\* no call is between its first and its last step
Quiet == \A p \in Calls : pc[p] = "idle" \/ Ended(p)

\* the check of submission.aiAnalysis left out
AlreadyAnalysed_never(row) == FALSE

\* if (submission.aiAnalysis) return
AlreadyAnalysed(row) == row.aiAnalysis.kind # "none"

\* the status written first: the row of the analysis is not stored
StoreAnalysis_statusFirst(rows, i, data) ==
    [rows EXCEPT ![i].status = "REVIEWED"]

\* prisma.aiAnalysis.create({data})
StoreAnalysis(rows, i, data) == [rows EXCEPT ![i].aiAnalysis = data]

\* prisma.submission.update({where: {id}, data: {status}})
StoreStatus(rows, i, status) == [rows EXCEPT ![i].status = status]

\* prisma.submission.delete({where: {id}}): the row goes, and the row of
\* its analysis with it
DeletedSubmission(rows, i) ==
    [j \in 1..(Len(rows) - 1) |-> IF j < i THEN rows[j] ELSE rows[j + 1]]

\* a step of call p: it moves on to next with its locals changed
Goto(p, next, changed) ==
    /\ pc' = [pc EXCEPT ![p] = next]
    /\ local' = [local EXCEPT ![p] = changed]

\* an error is thrown inside the try block: the catch block runs next;
\* injected tells that an operation failed on its own account
Throw(p, error, injected) ==
    Goto(p, "catch", [local[p] EXCEPT !.error = error,
                                      !.failed = @ \/ injected])

StepUnchanged ==
    UNCHANGED <<session, response, projects, call, text1, text2, submissionId,
                simResult, aiLocals, plagResult, dbError, geminiKey, thrown,
                trace, analysis, feedback>>

\* AIService.analyzeSubmission(sid) is called; the calls are numbered in
\* the order in which they are made
StartAnalyze(p, sid) ==
    /\ pc[p] = "idle"
    /\ \A q \in 1..(p - 1) : pc[q] # "idle"
    /\ Goto(p, "findUnique",
            [NoCall EXCEPT !.sid = sid, !.before = RowBefore(submissions, sid)])
    /\ UNCHANGED submissions
    /\ StepUnchanged

\* prisma.submission.findUnique and the tests of what it returned
FindUnique(p, fails) ==
    /\ pc[p] = "findUnique"
    /\ LET i == RowIndex(submissions, local[p].sid)
       IN  IF fails THEN Throw(p, "PrismaClientError", TRUE)
           ELSE IF i = 0 THEN Throw(p, "Submission not found", FALSE)
           ELSE IF AlreadyAnalysed(submissions[i])
           THEN Goto(p, "returned", local[p])
           ELSE IF Len(trim(submissions[i].content)) = 0
           THEN Throw(p, "Submission content is empty", FALSE)
           ELSE Goto(p, "analyze",
                     [local[p] EXCEPT
                         !.content = submissions[i].content,
                         !.isCode = submissions[i].fileType = "CODE"])
    /\ UNCHANGED submissions
    /\ StepUnchanged

\* this.analyzeCode(content) or this.analyzeText(content)
Analyze(p, outcome) ==
    /\ pc[p] = "analyze"
    /\ Goto(p, "detectPlagiarism",
            [local[p] EXCEPT
                !.analysis =
                    IF local[p].isCode
                    THEN analyzeCode(local[p].content, geminiKey, outcome).value
                    ELSE analyzeText(local[p].content, geminiKey, outcome).value,
                !.failed = @ \/ outcome.threw,
                !.llmCalls = @ + Len(LLMTrace(geminiKey, outcome))])
    /\ UNCHANGED submissions
    /\ StepUnchanged

\* the calls to the LLM that detectPlagiarism makes for call p: one for
\* each row it compares
SimilarityCalls(p, queryFails) ==
    IF queryFails \/ ~GeminiConfigured(geminiKey) THEN 0
    ELSE Len(OtherSubmissions(submissions, local[p].sid))

\* this.detectPlagiarism(content, submissionId): the table is read as it is
\* at this step; each call to the LLM has the same outcome
DetectPlagiarism(p, queryFails, outcome) ==
    /\ pc[p] = "detectPlagiarism"
    /\ Goto(p, "generateFeedback",
            [local[p] EXCEPT
                !.plagiarismResult =
                    detectPlagiarism(local[p].content, local[p].sid,
                                     submissions, queryFails, geminiKey,
                                     [i \in 1..Len(submissions) |-> outcome]),
                !.failed = @ \/ queryFails
                             \/ (outcome.threw /\ SimilarityCalls(p, queryFails) > 0),
                !.llmCalls = @ + SimilarityCalls(p, queryFails)])
    /\ UNCHANGED submissions
    /\ StepUnchanged

\* this.generateFeedback(content, analysis, plagiarismResult); the data of
\* the row to create are known from here on
GenerateFeedback(p, outcome) ==
    /\ pc[p] = "generateFeedback"
    /\ Goto(p, "create",
            [local[p] EXCEPT
                !.aiAnalysis =
                    AnalysisRow(local[p].sid, local[p].isCode, local[p].analysis,
                                local[p].plagiarismResult, geminiKey, outcome),
                !.failed = @ \/ outcome.threw,
                !.llmCalls = @ + Len(LLMTrace(geminiKey, outcome))])
    /\ UNCHANGED submissions
    /\ StepUnchanged

\* prisma.aiAnalysis.create
CreateAnalysis(p, fails) ==
    /\ pc[p] = "create"
    /\ LET i == RowIndex(submissions, local[p].sid)
       IN  IF fails
           THEN Throw(p, "PrismaClientError", TRUE) /\ UNCHANGED submissions
           ELSE IF i = 0
           THEN Throw(p, "Foreign key constraint failed", FALSE)
                /\ UNCHANGED submissions
           ELSE IF submissions[i].aiAnalysis.kind # "none"
           THEN Throw(p, "Unique constraint failed", FALSE)
                /\ UNCHANGED submissions
           ELSE /\ Goto(p, "update", local[p])
                /\ submissions' = StoreAnalysis(submissions, i, local[p].aiAnalysis)
    /\ StepUnchanged

\* prisma.submission.update({data: {status: 'REVIEWED'}})
UpdateReviewed(p, fails) ==
    /\ pc[p] = "update"
    /\ LET i == RowIndex(submissions, local[p].sid)
       IN  IF fails
           THEN Throw(p, "PrismaClientError", TRUE) /\ UNCHANGED submissions
           ELSE IF i = 0
           THEN Throw(p, "Record to update not found", FALSE)
                /\ UNCHANGED submissions
           ELSE /\ Goto(p, "returned", local[p])
                /\ submissions' = StoreStatus(submissions, i, "REVIEWED")
    /\ StepUnchanged

\* the catch block: the status is reset, an error of this update is only
\* logged, and the error is thrown on
CatchReset(p, fails) ==
    /\ pc[p] = "catch"
    /\ LET i == RowIndex(submissions, local[p].sid)
       IN  /\ Goto(p, "thrown", [local[p] EXCEPT !.failed = @ \/ fails])
           /\ submissions' = IF fails \/ i = 0 THEN submissions
                             ELSE StoreStatus(submissions, i, "PENDING")
    /\ StepUnchanged

\* the update of PUT /api/submissions/[id] by a user allowed to make it
PutSubmission(id, body) ==
    /\ RowIndex(submissions, id) # 0
    /\ submissions' = [submissions EXCEPT
                          ![RowIndex(submissions, id)] = UpdatedSubmission(@, body)]
    /\ UNCHANGED <<pc, local>>
    /\ StepUnchanged

\* the delete of DELETE /api/submissions/[id] by a user allowed to make it
DeleteSubmission(id) ==
    /\ RowIndex(submissions, id) # 0
    /\ submissions' = DeletedSubmission(submissions, RowIndex(submissions, id))
    /\ UNCHANGED <<pc, local>>
    /\ StepUnchanged

\* submissions created by POST /api/submissions, and no call made yet
InitCalls(keys) ==
    /\ \E n \in 1..MaxStored :
       \E bodies \in [1..n -> ValidBodies] :
           submissions = Posted(n, [i \in 1..n |-> Student], bodies)
    /\ geminiKey \in keys
    /\ pc = [p \in Calls |-> "idle"]
    /\ local = [p \in Calls |-> NoCall]
    /\ projects = {Student.id}
    /\ call = "none"
    /\ text1 = <<>>
    /\ text2 = <<>>
    /\ submissionId = 0
    /\ simResult = None
    /\ aiLocals = NoLocals
    /\ plagResult = NoPlag
    /\ dbError = FALSE
    /\ thrown = "none"
    /\ trace = <<>>
    /\ analysis = NoAnalysis
    /\ feedback = NoFeedback
    /\ session = NoSession
    /\ response = NoResponse

\* the steps of the calls that have started
CallSteps ==
    \E p \in Calls :
        \/ \E fails \in BOOLEAN : FindUnique(p, fails)
        \/ \E o \in StepOutcomes(IF local[p].isCode THEN "analyzeCode"
                                 ELSE "analyzeText") : Analyze(p, o)
        \/ \E queryFails \in BOOLEAN, o \in StepOutcomes("similarity") :
               DetectPlagiarism(p, queryFails, o)
        \/ \E o \in StepOutcomes("feedback") : GenerateFeedback(p, o)
        \/ \E fails \in BOOLEAN : CreateAnalysis(p, fails)
        \/ \E fails \in BOOLEAN : UpdateReviewed(p, fails)
        \/ \E fails \in BOOLEAN : CatchReset(p, fails)

StoredIds == 1..MaxStored

\* the calls and the requests interleave at every await
StepsNext ==
    \/ \E p \in Calls, sid \in StoredIds : StartAnalyze(p, sid)
    \/ CallSteps
    \/ \E id \in StoredIds, body \in PutBodies : PutSubmission(id, body)
    \/ \E id \in StoredIds : DeleteSubmission(id)

\* the interleavings are explored without a key for the LLM
InitSteps == InitCalls({""})

SpecSteps == InitSteps /\ [][StepsNext]_vars

\* the calls and the requests one after the other: a call or a request
\* starts when no call is running
RetryNext ==
    \/ Quiet /\ \E p \in Calls, sid \in StoredIds : StartAnalyze(p, sid)
    \/ CallSteps
    \/ Quiet /\ \E id \in StoredIds, body \in PutBodies : PutSubmission(id, body)
    \/ Quiet /\ \E id \in StoredIds : DeleteSubmission(id)

InitRetry == InitCalls(RouteKeys)

SpecRetry == InitRetry /\ [][RetryNext]_vars

----------------------------------------------------------------------------
(* Properties of detectAIContent, checked under SpecAI *)

WhitespaceOnly(s) == \A i \in 1..Len(s) : IsSpace(s[i])

\* C1: for every input text, the empty string, whitespace-only and very
\* short texts included, the score returned by detectAIContent is a number
\* in the closed interval [0,1], neither NaN nor infinite.
C1_AuthorshipScoreInUnitInterval ==
    call = "detectAIContent" => InUnitInterval(aiLocals.finalScore)

\* a call whose score before the clamp was above 1 and was returned as 1
C1_Witness ==
    /\ call = "detectAIContent"
    /\ Gt(aiLocals.preClamp, One)
    /\ aiLocals.finalScore = One

\* C6: the score of the empty string and of every whitespace-only string
\* is 0, and no division by a zero word count or sentence count occurs on
\* such input: both counts are at least 1 and the ratios computed from them
\* are finite.
C6_BlankTextScoresZero ==
    (call = "detectAIContent" /\ WhitespaceOnly(text1)) =>
        /\ aiLocals.finalScore = Zero
        /\ aiLocals.words >= 1
        /\ aiLocals.sentences >= 1
        /\ IsFinite(aiLocals.avgWordsPerSentence)
        /\ IsFinite(aiLocals.pronounRatio)

\* a call on a non-empty text made of whitespace only
C6_Witness ==
    /\ call = "detectAIContent"
    /\ text1 # <<>>
    /\ WhitespaceOnly(text1)
    /\ aiLocals.finalScore = Zero

\* C11: the text dense in first-person pronouns and contractions
\* (HumanExample) is scored strictly lower than the text using only formal
\* connectives (FormalExample).
C11_HumanTextScoresLower ==
    call = "detectAIContent" =>
        /\ text1 = HumanExample =>
               Gt(detectAIContent(FormalExample), aiLocals.finalScore)
        /\ text1 = FormalExample =>
               Gt(aiLocals.finalScore, detectAIContent(HumanExample))

\* the call on the human example: it has human signals, and its score is
\* below the score of the formal example
C11_Witness ==
    /\ call = "detectAIContent"
    /\ text1 = HumanExample
    /\ Gt(aiLocals.humanScore, Zero)
    /\ aiLocals.aiScore = Zero
    /\ Gt(detectAIContent(FormalExample), aiLocals.finalScore)

----------------------------------------------------------------------------
(* Properties of calculateLocalSimilarity, checked under SpecSim *)

\* C2: for every pair of strings, empty strings, identical texts and texts
\* sharing no words included, calculateLocalSimilarity returns a number in
\* the closed interval [0,1], neither NaN nor infinite.
C2_SimilarityInUnitInterval ==
    call = "calculateLocalSimilarity" => InUnitInterval(simResult)

\* the empty string compared with a non-empty text sharing no word with it
C2_Witness ==
    /\ call = "calculateLocalSimilarity"
    /\ text1 = <<>>
    /\ text2 = <<"b">>
    /\ simResult = Num(3, 10)

\* C3: for every non-empty string c, the similarity of c with itself is
\* exactly 1.
C3_SelfSimilarityIsOne ==
    (call = "calculateLocalSimilarity" /\ text1 = text2 /\ text1 # <<>>) =>
        simResult = One

\* a text longer than the window compared with itself
C3_Witness ==
    /\ call = "calculateLocalSimilarity"
    /\ text1 = text2
    /\ Len(text1) > WindowLen
    /\ simResult = One

\* C4: the similarity is symmetric: similarity(c, x) = similarity(x, c) for
\* all strings c and x, pairs of equal length that differ and texts longer
\* than the 20-character window included.
C4_SimilaritySymmetric ==
    call = "calculateLocalSimilarity" =>
        simResult = calculateLocalSimilarity(text2, text1)

\* C5: the similarity of the empty string with the empty string is 0.
C5_EmptyEmptyIsZero ==
    (call = "calculateLocalSimilarity" /\ text1 = <<>> /\ text2 = <<>>) =>
        simResult = Zero

----------------------------------------------------------------------------
(* Properties of detectPlagiarism on the local path (GEMINI_API_KEY unset  *)
(* or left at its placeholder), checked under SpecPlag                     *)

\* GEMINI_API_KEY is unset or left at its placeholder
LocalPath == ~GeminiConfigured(geminiKey)

\* the outcomes of the calls made to the LLM, read from the trace
Outcomes ==
    [i \in 1..(Len(trace) - 1) |->
        [threw |-> trace[i + 1].threw, text |-> trace[i + 1].text]]

\* the corpus items the candidate text1 is compared with
Corpus == OtherSubmissions(submissions, submissionId)

\* the similarity of the candidate with the k-th corpus item
SimOf(k) == calculateLocalSimilarity(text1, Corpus[k].content)

\* the largest of a non-empty set of numbers
Largest(S) == CHOOSE x \in S : \A y \in S : Ge(x, y)

\* C7: for every candidate and every corpus, the result contains at most
\* 10 matches, and every returned match has a similarity greater than or
\* equal to the threshold 0.3.
C7_AtMostTenMatchesAboveThreshold ==
    (call = "detectPlagiarism" /\ LocalPath) =>
        /\ Len(plagResult.matches) <= 10
        /\ \A i \in 1..Len(plagResult.matches) :
               Ge(plagResult.matches[i].similarity, Num(3, 10))

\* more than 10 corpus items exceed the threshold and 10 matches are returned
C7_Witness ==
    /\ call = "detectPlagiarism"
    /\ LocalPath
    /\ ~dbError
    /\ Len(Corpus) > 10
    /\ \A k \in 1..Len(Corpus) : Gt(SimOf(k), Num(3, 10))
    /\ Len(plagResult.matches) = 10

\* C8: the returned matches are sorted in descending order of similarity,
\* and no corpus item above the threshold that was left out scores higher
\* than a returned match.
C8_MatchesSortedTopK ==
    (call = "detectPlagiarism" /\ LocalPath) =>
        LET m == plagResult.matches
            sources == {m[i].source : i \in 1..Len(m)}
        IN  /\ \A i, j \in 1..Len(m) :
                   i < j => Ge(m[i].similarity, m[j].similarity)
            /\ \A k \in 1..Len(Corpus) :
                   (Gt(SimOf(k), Num(3, 10)) /\ Corpus[k].title \notin sources) =>
                       \A i \in 1..Len(m) : Ge(m[i].similarity, SimOf(k))

\* C9, as claimed: the score equals the maximum similarity over all
\* compared corpus items, whether or not they exceed the threshold, and is
\* 0 when the corpus is empty, whatever the candidate is.
C9_ScoreIsMaxOverCorpus ==
    (call = "detectPlagiarism" /\ LocalPath /\ ~dbError) =>
        plagResult.score =
            IF Len(Corpus) = 0 THEN Zero
            ELSE Largest({SimOf(k) : k \in 1..Len(Corpus)})

\* C9, amended: the score equals the maximum over the gathered matches,
\* that is over the similarities of the corpus items that exceed 0.3 and,
\* when the authorship score of the candidate exceeds 0.6, that authorship
\* score; it is 0 when nothing was gathered or the corpus query failed.
C9_ScoreIsMaxOverGathered ==
    (call = "detectPlagiarism" /\ LocalPath) =>
        LET above == {SimOf(k) : k \in {j \in 1..Len(Corpus) :
                                            Gt(SimOf(j), Num(3, 10))}}
            ai == detectAIContent(text1)
            gathered == above \cup (IF Gt(ai, Num(6, 10)) THEN {ai} ELSE {})
        IN  plagResult.score =
                IF dbError \/ gathered = {} THEN Zero ELSE Largest(gathered)

\* ten matches are returned and the score is higher than all of them: it
\* comes from a corpus item beyond the tenth match
C9_Witness ==
    /\ call = "detectPlagiarism"
    /\ LocalPath
    /\ ~dbError
    /\ Len(plagResult.matches) = 10
    /\ \A i \in 1..10 : Gt(plagResult.score, plagResult.matches[i].similarity)

\* the corpus is one item whose content is non-empty and equal to the
\* candidate
ExactSingleCorpus ==
    /\ call = "detectPlagiarism"
    /\ LocalPath
    /\ ~dbError
    /\ Len(Corpus) = 1
    /\ Corpus[1].content = text1

\* C10, as claimed: when the corpus is exactly one item equal to the
\* candidate, the score is 1.0 and there is exactly one match, which
\* identifies that item.
C10_ExactMatchOnly ==
    ExactSingleCorpus =>
        /\ plagResult.score = One
        /\ Len(plagResult.matches) = 1
        /\ plagResult.matches[1].source = Corpus[1].title

\* C10, amended: the score is 1.0 and the first match has similarity 1.0
\* and names that item; it is the only match unless the authorship score
\* of the candidate exceeds 0.6, in which case the list has a second
\* entry, the AI-content match.
C10_ExactMatchFirst ==
    ExactSingleCorpus =>
        LET m == plagResult.matches
            flagged == Gt(detectAIContent(text1), Num(6, 10))
        IN  /\ plagResult.score = One
            /\ Len(m) = (IF flagged THEN 2 ELSE 1)
            /\ m[1].similarity = One
            /\ m[1].source = Corpus[1].title
            /\ flagged => m[2].source = AIMatchSource

\* the exact match is followed by the AI-content match
C10_Witness ==
    /\ ExactSingleCorpus
    /\ Len(plagResult.matches) = 2
    /\ plagResult.matches[1].source = Corpus[1].title


----------------------------------------------------------------------------
(* Errors of detectPlagiarism, checked under SpecPlag *)

\* the rows other than the one analysed whose content is missing
EmptyEntries ==
    {i \in 1..Len(submissions) :
        submissions[i].id # submissionId /\ submissions[i].content = <<>>}

\* the table without the rows whose content is missing
WithoutEmpty(rows) ==
    LET Filled(r) == r.content # <<>>
    IN  SelectSeq(rows, Filled)

C13_NeverThrowsSafeFallback ==
    call = "detectPlagiarism" =>
        /\ thrown = "none"
        /\ dbError => plagResult = [score |-> Zero, matches |-> <<>>]

\* the corpus query failed on a table holding the candidate itself, and
\* the fallback was returned
C13_Witness ==
    /\ call = "detectPlagiarism"
    /\ dbError
    /\ trace = <<[FindManyCall EXCEPT !.threw = TRUE]>>
    /\ \E k \in 1..Len(Corpus) : Corpus[k].content = text1
    /\ thrown = "none"
    /\ plagResult.score = Zero

\* C14: with the LLM configured, a corpus item whose LLM similarity call
\* fails is scored with the local similarity instead, so an item whose
\* local similarity exceeds 0.3 is reported as a match with that similarity.
C14_FailedLLMCallFallsBackToLocal ==
    (call = "detectPlagiarism" /\ ~dbError /\ GeminiConfigured(geminiKey)) =>
        \A k \in 1..Len(Corpus) :
            (trace[k + 1].threw /\ Gt(SimOf(k), Num(3, 10))) =>
                \E i \in 1..Len(plagResult.matches) :
                    /\ plagResult.matches[i].source = Corpus[k].title
                    /\ plagResult.matches[i].similarity = SimOf(k)

----------------------------------------------------------------------------
(* Fallbacks of the analysis operations, checked under SpecAnalysis *)

\* the operation called the LLM and the call threw
LLMThrew == trace # <<>> /\ trace[1].threw

\* the operation called the LLM and the response holds no parseable JSON
NoParseableJSON ==
    /\ trace # <<>>
    /\ ~trace[1].threw
    /\ LET m == JSONMatch(trace[1].text)
       IN  ~m.found \/ ~JSONParse(m.text).ok

----------------------------------------------------------------------------
(* Protection of the route handlers, checked under SpecRoutes *)

\* C17: a request without an authenticated session is answered with the
\* status 401, and its handler runs no analysis and no detection and calls
\* neither prisma nor the LLM, whichever route it is sent to.
C17_NoSessionGets401 ==
    (call # "none" /\ ~Authenticated(session)) =>
        /\ response.status = 401
        /\ trace = <<>>

----------------------------------------------------------------------------
(* Access to a single submission, checked under SpecRoutes *)

\* the row the request names, in the table the handler found
Requested(rows) == rows[RowIndex(rows, submissionId')]

\* the request that is answered names a stored row, and comes from a user
\* who is signed in and did not submit that row
ByAnotherUser ==
    /\ RowIndex(submissions, submissionId') # 0
    /\ Authenticated(session')
    /\ Requested(submissions).submitterId # session'.id
    /\ ~dbError'

\* the response discloses nothing of a submission
Undisclosed(resp) == resp.body.kind = "message"

\* C18: a GET by a user who is neither the submitter nor an INSTRUCTOR, a
\* PUT by a user who is not the submitter and a DELETE by a user who is
\* neither the submitter nor an ADMIN are answered with the status 403, the
\* table of submissions stays as it was, and the response holds nothing of
\* the submission.
C18_ForbiddenLeavesSubmission ==
    [][LET denied ==
               \/ call' = "GET /api/submissions/[id]" /\ session'.role # "INSTRUCTOR"
               \/ call' = "PUT /api/submissions/[id]"
               \/ call' = "DELETE /api/submissions/[id]" /\ session'.role # "ADMIN"
       IN  (ByAnotherUser /\ denied) =>
               /\ response'.status = 403
               /\ Undisclosed(response')
               /\ submissions' = submissions]_vars

\* a PUT of the instructor on a row of the student was refused
C18_Witness ==
    /\ call = "PUT /api/submissions/[id]"
    /\ session = Instructor
    /\ RowIndex(submissions, submissionId) # 0
    /\ submissions[RowIndex(submissions, submissionId)].submitterId = Student.id
    /\ response.status = 403

----------------------------------------------------------------------------
(* The thresholds of the flags, checked under SpecRoutes *)

PlagiarismFlagThreshold == Num(3, 10)
AIFlagThreshold == Num(6, 10)

\* the positions of the analysed rows of a user
AnalysedRowsOf(userId) ==
    {i \in 1..Len(submissions) :
        /\ submissions[i].submitterId = userId
        /\ submissions[i].aiAnalysis.kind # "none"}

\* the positions of the analysed rows whose plagiarism score is above the
\* threshold
AboveThreshold(positions) ==
    {i \in positions :
        Gt(submissions[i].aiAnalysis.plagiarismScore, PlagiarismFlagThreshold)}

\* the list of matches holds the match that reports AI content
HasAIMatch(matches) ==
    \E i \in 1..Len(matches) : matches[i].source = AIMatchSource

----------------------------------------------------------------------------
(* The formula of calculateLocalSimilarity, checked under SpecSim.  The    *)
(* word sets and the windows are written here without the operators of the *)
(* model of the function.                                                  *)

\* x occurs in t at the offset k
OccursAt(x, t, k) == \A j \in 1..Len(x) : t[k + j] = x[j]

\* x occurs verbatim in t
Occurs(x, t) == \E k \in 0..(Len(t) - Len(x)) : OccursAt(x, t, k)

\* the lowercase whitespace-delimited words of s: the maximal runs of
\* characters that are not whitespace, and the empty word when s is empty or
\* begins or ends with whitespace
WordSet(s) ==
    LET low == [i \in 1..Len(s) |-> LowerChar(s[i])]
        Edge(i) == i = 0 \/ i = Len(s) + 1 \/ IsSpace(s[i])
        runs == {<<i, j>> \in (1..Len(s)) \X (1..Len(s)) :
                    /\ i <= j
                    /\ \A k \in i..j : ~IsSpace(s[k])
                    /\ Edge(i - 1)
                    /\ Edge(j + 1)}
    IN  {SubSeq(low, r[1], r[2]) : r \in runs}
        \cup (IF Len(s) = 0 \/ IsSpace(s[1]) \/ IsSpace(s[Len(s)])
              THEN {<<>>} ELSE {})

\* J: the Jaccard ratio of the word sets
JaccardRatio(a, b) ==
    Div(Cardinality(WordSet(a) \cap WordSet(b)),
        Cardinality(WordSet(a) \cup WordSet(b)))

\* the shorter and the longer of two texts; of two texts of the same length
\* the first is the shorter
ShorterOf(a, b) == IF Len(a) > Len(b) THEN b ELSE a
LongerOf(a, b) == IF Len(a) > Len(b) THEN a ELSE b

WindowLenOf(a, b) ==
    IF Len(ShorterOf(a, b)) < WindowLen THEN Len(ShorterOf(a, b)) ELSE WindowLen

\* the offsets of the windows of the shorter text
Offsets(a, b) == 0..(Len(ShorterOf(a, b)) - WindowLenOf(a, b))

WindowAt(a, b, i) == SubSeq(ShorterOf(a, b), i + 1, i + WindowLenOf(a, b))

\* O with the distinct windows counted
DistinctWindowOverlap(a, b) ==
    Div(Cardinality({w \in {WindowAt(a, b, i) : i \in Offsets(a, b)} :
                        Occurs(w, LongerOf(a, b))}),
        Cardinality(Offsets(a, b)))

\* O with every offset counted
OffsetOverlap(a, b) ==
    Div(Cardinality({i \in Offsets(a, b) :
                        Occurs(WindowAt(a, b, i), LongerOf(a, b))}),
        Cardinality(Offsets(a, b)))

Combined(j, o) == MathMin(One, Add(Scale(j, 7, 10), Scale(o, 3, 10)))

\* C20, as claimed: calculateLocalSimilarity(a, b) = min(1, 0.7 J + 0.3 O)
\* where O is the number of distinct windows of the shorter text that occur
\* in the longer text, divided by the number of offsets.
C20_DistinctWindowFormula ==
    call = "calculateLocalSimilarity" =>
        simResult = Combined(JaccardRatio(text1, text2),
                             DistinctWindowOverlap(text1, text2))

\* C20, amended: calculateLocalSimilarity(a, b) = min(1, 0.7 J + 0.3 O)
\* where O is the number of offsets of the shorter text at which the window
\* occurs in the longer text, divided by the number of offsets, so that a
\* window that is found is counted once for each offset it stands at.
C20_OffsetWindowFormula ==
    call = "calculateLocalSimilarity" =>
        simResult = Combined(JaccardRatio(text1, text2),
                             OffsetOverlap(text1, text2))

\* two texts longer than the window in which one window stands at two
\* offsets of the shorter text
C20_Witness ==
    /\ call = "calculateLocalSimilarity"
    /\ Len(text1) > WindowLen
    /\ Len(text2) > Len(text1)
    /\ OffsetOverlap(text1, text2) # DistinctWindowOverlap(text1, text2)
    /\ simResult = Combined(JaccardRatio(text1, text2), OffsetOverlap(text1, text2))

----------------------------------------------------------------------------
(* Claim C21 *)

\* a word of letters written twice in a row, the two separated by whitespace
\* (such as "the the"), whatever the case of its letters
RepeatedWordPair(s) ==
    \E p \in 0..(Len(s) - 3) :
    \E k \in 1..((Len(s) - p) \div 2) :
    \E w \in 1..(Len(s) - p - 2 * k) :
        /\ WordBoundaryAt(s, p)
        /\ \A j \in 1..k : IsLetter(s[p + j])
        /\ \A j \in 1..w : IsSpace(s[p + k + j])
        /\ toLowerCase(SubSeq(s, p + 1, p + k))
               = toLowerCase(SubSeq(s, p + k + w + 1, p + 2 * k + w))
        /\ WordBoundaryAt(s, p + 2 * k + w)

\* the pre-clamp score without the subtraction for typos
WithoutTypoPenalty(text, locals) ==
    Sub(InitialFinalScore(locals.aiScore, locals.humanScore),
        ConnectorPenalty(locals.words,
                         CountAlt(toLowerCase(text), conversationalConnectorAlts)))

\* C21: a text that contains an immediately repeated word pair separated by
\* whitespace has 0.2 subtracted from its pre-clamp score, and a text
\* without such a pair has nothing subtracted.
C21_RepeatedPairSubtracts ==
    call = "detectAIContent" =>
        aiLocals.preClamp =
            IF RepeatedWordPair(text1)
            THEN Sub(WithoutTypoPenalty(text1, aiLocals), Num(2, 10))
            ELSE WithoutTypoPenalty(text1, aiLocals)

----------------------------------------------------------------------------
(* Claims C22 to C26: the calls of analyzeSubmission, step by step *)

\* the stored row with this id (the id is that of a stored row)
RowOf(rows, sid) == rows[RowIndex(rows, sid)]

Stored(rows, sid) == RowIndex(rows, sid) # 0

HasAnalysis(row) == row.aiAnalysis.kind # "none"

\* call p found its submission stored, not analysed and with a content
PassedChecks(p) == local[p].content # <<>>

\* the submission was stored when call p was made
FoundBefore(p) == "id" \in DOMAIN local[p].before

\* this step is the last of call p
Ends(p) == ~Ended(p) /\ pc[p] # "idle" /\ pc'[p] \in {"returned", "thrown"}

\* C22: two calls of analyzeSubmission on the same submission, both of
\* which passed the test of submission.aiAnalysis and in neither of which
\* an operation of the database or of the LLM failed: once both have
\* ended, the submission has its analysis record and the status REVIEWED.
C22_ConcurrentCallsEndReviewed ==
    \A p \in Calls, q \in Calls :
        (/\ p < q
         /\ Ended(p) /\ Ended(q)
         /\ local[p].sid = local[q].sid
         /\ PassedChecks(p) /\ PassedChecks(q)
         /\ ~local[p].failed /\ ~local[q].failed
         /\ Stored(submissions, local[p].sid))
        => /\ HasAnalysis(RowOf(submissions, local[p].sid))
           /\ RowOf(submissions, local[p].sid).status = "REVIEWED"

\* C23: when a call of analyzeSubmission for a stored submission throws,
\* the submission is left without an analysis record and with the status
\* PENDING.
C23_FailedCallLeavesRetryable ==
    [][\A p \in Calls :
           (Ends(p) /\ pc'[p] = "thrown" /\ FoundBefore(p))
           => /\ ~HasAnalysis(RowOf(submissions', local[p].sid))
              /\ RowOf(submissions', local[p].sid).status = "PENDING"]_vars

\* C24: after a call for a submission with a content has failed, a later
\* call for the same submission in which no operation of the database or
\* of the LLM fails ends with the submission having an analysis record
\* and the status REVIEWED.
C24_RetrySucceeds ==
    [][\A p \in Calls, q \in Calls :
           (/\ pc[p] = "thrown"
            /\ local[p].sid = local[q].sid
            /\ Ends(q)
            /\ ~local'[q].failed
            /\ FoundBefore(q)
            /\ Len(trim(local[q].before.content)) > 0)
           => /\ HasAnalysis(RowOf(submissions', local[q].sid))
              /\ RowOf(submissions', local[q].sid).status = "REVIEWED"]_vars

\* C25: in every state reached by creating, updating, deleting and
\* analysing submissions, with the calls interleaved, a submission whose
\* status is REVIEWED has an analysis record.
C25_ReviewedHasAnalysis ==
    \A i \in 1..Len(submissions) :
        submissions[i].status = "REVIEWED" => HasAnalysis(submissions[i])

\* two calls raced for the record, the loser reset the status in its catch
\* block, and the winner then set the status REVIEWED
C25_Witness ==
    \E p \in Calls, i \in 1..Len(submissions) :
        /\ pc[p] = "thrown"
        /\ local[p].error = "Unique constraint failed"
        /\ submissions[i].id = local[p].sid
        /\ submissions[i].status = "REVIEWED"
        /\ HasAnalysis(submissions[i])

\* call p was made for a submission that had its analysis record
AnalysedBefore(p) == FoundBefore(p) /\ HasAnalysis(local[p].before)

----------------------------------------------------------------------------
(* Claim C27, checked under SpecPlag *)

\* C27: for every result of detectPlagiarism, with the LLM configured or
\* not, the score and the similarity of every returned match lie in [0,1],
\* the score is at least the similarity of every returned match, and the
\* score is 0 exactly when no match is returned.
C27_ScoreBoundsReturnedMatches ==
    call = "detectPlagiarism" =>
        /\ InUnitInterval(plagResult.score)
        /\ \A i \in 1..Len(plagResult.matches) :
               /\ InUnitInterval(plagResult.matches[i].similarity)
               /\ Ge(plagResult.score, plagResult.matches[i].similarity)
        /\ (plagResult.score = Zero) <=> (plagResult.matches = <<>>)

\* with the LLM configured, a reply above 1 was clamped to the score 1 and
\* a second match with a lower similarity is returned with it
C27_Witness ==
    /\ call = "detectPlagiarism"
    /\ GeminiConfigured(geminiKey)
    /\ \E i \in 1..Len(trace) : trace[i].text = <<"2">>
    /\ plagResult.score = One
    /\ Len(plagResult.matches) = 2
    /\ \E i \in 1..2 : Gt(plagResult.score, plagResult.matches[i].similarity)

----------------------------------------------------------------------------
(* Claim C28, checked under SpecAnalysis *)

\* a number of the closed interval [0,100]
InScoreRange(x) == x.d > 0 /\ 0 <= x.n /\ x.n <= 100 * x.d

\* the metrics of an analysis: five for a code, four for a text
MetricsOf(a) ==
    IF IsCodeAnalysis(a)
    THEN {a.quality, a.complexity, a.maintainability, a.performance,
          a.readability}
    ELSE {a.readability, a.grammar, a.structure, a.clarity}

\* C28: every metric analyzeCode and analyzeText return lies in [0,100],
\* when the LLM answered and when the local fallback computed it, and so
\* does the overall score analyzeSubmission computes from them.
C28_MetricsInScoreRange ==
    call \in {"analyzeCode", "analyzeText"} =>
        /\ \A x \in MetricsOf(analysis) : InScoreRange(x)
        /\ InScoreRange(OverallScore(analysis))
====
